---------------------------- MODULE Spec2Model ----------------------------
(***************************************************************************)
(* Cache-first retrieval pipeline of antarctic-analytics:                  *)
(*   app/service.py   AntartidaService.get_data (retrieval orchestrator)   *)
(*   app/database.py  SQLiteRepository (measurement store, fetch windows)  *)
(*   app/aemet_client.py  AemetClient (remote source adapter)              *)
(*                                                                         *)
(* Time.  A Python datetime is modelled by its wall-clock reading and the  *)
(* offset of its tzinfo, both in minutes: [wall, off]; off = None is a     *)
(* naive datetime.  isoformat() prints the wall-clock fields followed by   *)
(* the offset suffix, so an ISO string is the pair <<wall, off>> and SQLite*)
(* compares two of them as text (BINARY collation), i.e. first by the      *)
(* wall-clock digits and then by the suffix.  Python compares two aware    *)
(* datetimes by the instant wall - off.                                    *)
(***************************************************************************)
EXTENDS Integers, Sequences, FiniteSets, TLC

\* an absent optional value (Python None, SQL NULL); a present one is <<v>>
None == <<>>

Some(v) == <<v>>

(***************************************************************************)
(* Bounds of the model.                                                    *)
(***************************************************************************)
\* the wall clock (utcnow) runs over 0..MaxNow ticks
MaxNow == 2

\* get_data requests started in one behaviour
MaxRequests == 2

\* upsert_measurements calls in one behaviour of StoreSpec
MaxUpserts == 2

(***************************************************************************)
(* Settings.cache_freshness_seconds, in clock ticks.                       *)
(***************************************************************************)
cache_freshness_seconds == 1

\* request threads that may run get_data concurrently
Procs == {1, 2}

(***************************************************************************)
(* datetime: wall is the wall-clock reading, off the tzinfo's offset       *)
(* (Some(minutes)), or None for a naive datetime.                          *)
(***************************************************************************)
DateTime(wall, off) == [wall |-> wall, off |-> Some(off)]

NaiveDateTime(wall) == [wall |-> wall, off |-> None]

\* the absolute instant of an aware datetime (wall clock minus offset)
Instant(dt) == dt.wall - dt.off[1]

\* datetime.astimezone(UTC) of an aware datetime
AsTimezoneUTC(dt) == DateTime(Instant(dt), 0)

\* datetime.isoformat(): "<wall clock>" followed by "+HH:MM" / "-HH:MM" / ""
IsoFormat(dt) == <<dt.wall, dt.off>>

\* datetime.fromisoformat()
FromIsoFormat(s) == [wall |-> s[1], off |-> s[2]]

\* text order of two offset suffixes: "" < "+.." < "-..", digits after the sign
SuffixLess(a, b) ==
    IF a = None THEN b # None
    ELSE IF b = None THEN FALSE
    ELSE IF a[1] >= 0 /\ b[1] >= 0 THEN a[1] < b[1]
    ELSE IF a[1] >= 0 THEN TRUE
    ELSE IF b[1] >= 0 THEN FALSE
    ELSE (0 - a[1]) < (0 - b[1])

\* SQLite's comparison of two TEXT values holding ISO strings
TextLess(s, t) == s[1] < t[1] \/ (s[1] = t[1] /\ SuffixLess(s[2], t[2]))

TextLE(s, t) == s = t \/ TextLess(s, t)

\* Python's >= on two datetimes of the same kind (both naive or both aware)
DateTimeGE(a, b) ==
    IF a.off = None \/ b.off = None THEN a.wall >= b.wall
    ELSE Instant(a) >= Instant(b)

(***************************************************************************)
(* SourceMeasurement (app/models): one observation as the adapter built it *)
(* or as the store returned it.  Optional reals are None when absent.      *)
(***************************************************************************)
\* float('nan'), float('inf') and float('-inf'); a finite float is <<v>>
NaN == <<"nan", "float">>

PosInf == <<"inf", "float">>

NegInf == <<"-inf", "float">>

\* a variant that lets every value through
SanitizeNanNothing(v) == v

\* _sanitize_nan: NaN and the infinities become None
SanitizeNan(v) == IF v \in {NaN, PosInf, NegInf} THEN None ELSE v

\* SourceMeasurement(...): _clean_nan runs on the seven optional reals
\* before the fields are set
SourceMeasurement(name, at, t, p, s, d, lat, lon, alt) ==
    [station_name |-> name, measured_at_utc |-> at,
     temperature_c |-> SanitizeNan(t), pressure_hpa |-> SanitizeNan(p),
     speed_mps |-> SanitizeNan(s), direction_deg |-> SanitizeNan(d),
     latitude |-> SanitizeNan(lat), longitude |-> SanitizeNan(lon),
     altitude_m |-> SanitizeNan(alt)]

(***************************************************************************)
(* SQLiteRepository.upsert_measurements: the parameter tuple of one row,   *)
(* i.e. the record INSERT would store (the `excluded` row on a conflict).  *)
(***************************************************************************)
InsertParams(station_id, row, now_utc) ==
    [station_id |-> station_id,
     station_name |-> row.station_name,
     measured_at_utc |-> IsoFormat(row.measured_at_utc),
     temperature_c |-> row.temperature_c,
     pressure_hpa |-> row.pressure_hpa,
     speed_mps |-> row.speed_mps,
     direction_deg |-> row.direction_deg,
     latitude |-> row.latitude,
     longitude |-> row.longitude,
     altitude_m |-> row.altitude_m,
     fetched_at_utc |-> now_utc]

\* a variant without COALESCE: the incoming value is stored even when absent
CoalesceExcluded(a, b) == a

\* SQL COALESCE(a, b)
Coalesce(a, b) == IF a # None THEN a ELSE b

\* a variant with ON CONFLICT ... DO NOTHING
OnConflictDoNothing(stored, excluded) == stored

\* ON CONFLICT(station_id, measured_at_utc) DO UPDATE SET ...
OnConflictUpdate(stored, excluded) ==
    [stored EXCEPT
       !.station_name = excluded.station_name,
       !.temperature_c = excluded.temperature_c,
       !.pressure_hpa = excluded.pressure_hpa,
       !.speed_mps = excluded.speed_mps,
       !.direction_deg = excluded.direction_deg,
       !.latitude = Coalesce(excluded.latitude, stored.latitude),
       !.longitude = Coalesce(excluded.longitude, stored.longitude),
       !.altitude_m = Coalesce(excluded.altitude_m, stored.altitude_m),
       !.fetched_at_utc = excluded.fetched_at_utc]

\* the rows of the table that conflict with `new` on the primary key
\* a variant in which the observation instant alone is the key
MeasurementConflictsAnyStation(table, new) ==
    {r \in table : r.measured_at_utc = new.measured_at_utc}

MeasurementConflicts(table, new) ==
    {r \in table : r.station_id = new.station_id
                   /\ r.measured_at_utc = new.measured_at_utc}

\* INSERT INTO measurements ... ON CONFLICT ... DO UPDATE, for one row
InsertMeasurement(table, new) ==
    LET old == MeasurementConflicts(table, new)
    IN  IF old = {} THEN table \cup {new}
        ELSE (table \ old) \cup {OnConflictUpdate(o, new) : o \in old}

\* conn.executemany(INSERT ..., [params for row in rows]): row after row
RECURSIVE ExecuteMany(_, _, _, _)
ExecuteMany(table, station_id, rows, now_utc) ==
    IF rows = <<>> THEN table
    ELSE ExecuteMany(InsertMeasurement(table, InsertParams(station_id, Head(rows), now_utc)),
                     station_id, Tail(rows), now_utc)

\* a variant that records only the start of the range
WindowParamsStartOnly(station_id, start_utc, end_utc, now_utc) ==
    [station_id |-> station_id,
     start_utc |-> IsoFormat(start_utc),
     end_utc |-> IsoFormat(start_utc),
     fetched_at_utc |-> now_utc]

\* the record of fetch_windows written by upsert_measurements
WindowParams(station_id, start_utc, end_utc, now_utc) ==
    [station_id |-> station_id,
     start_utc |-> IsoFormat(start_utc),
     end_utc |-> IsoFormat(end_utc),
     fetched_at_utc |-> now_utc]

WindowConflicts(windows, new) ==
    {w \in windows : w.station_id = new.station_id
                     /\ w.start_utc = new.start_utc
                     /\ w.end_utc = new.end_utc}

\* a variant without the ON CONFLICT clause and without the primary key
InsertWindowAppend(windows, new) == windows \cup {new}

\* INSERT INTO fetch_windows ... ON CONFLICT(station_id, start_utc, end_utc)
\* DO UPDATE SET fetched_at_utc = excluded.fetched_at_utc
InsertWindow(windows, new) ==
    LET old == WindowConflicts(windows, new)
    IN  IF old = {} THEN windows \cup {new}
        ELSE (windows \ old)
             \cup {[w EXCEPT !.fetched_at_utc = new.fetched_at_utc] : w \in old}

(***************************************************************************)
(* SQLiteRepository.has_fresh_fetch_window                                 *)
(***************************************************************************)
\* WHERE station_id = ? AND start_utc <= ? AND end_utc >= ?
\* a variant that takes every window of the station
WindowsOfStation(windows, station_id, start_utc, end_utc) ==
    {w \in windows : w.station_id = station_id}

CoveringWindows(windows, station_id, start_utc, end_utc) ==
    {w \in windows : w.station_id = station_id
                     /\ TextLE(w.start_utc, IsoFormat(start_utc))
                     /\ TextLE(IsoFormat(end_utc), w.end_utc)}

\* ORDER BY fetched_at_utc DESC LIMIT 1 (the rows tied for first carry the
\* same fetched_at_utc, the only column selected)
LatestFetched(matches) ==
    CHOOSE w \in matches :
        \A v \in matches : TextLE(v.fetched_at_utc, w.fetched_at_utc)

\* a variant with a strict comparison
IsFreshStrict(fetched_at, min_fetched_at_utc) ==
    ~DateTimeGE(min_fetched_at_utc, fetched_at)

\* return fetched_at >= min_fetched_at_utc
IsFresh(fetched_at, min_fetched_at_utc) == DateTimeGE(fetched_at, min_fetched_at_utc)

HasFreshFetchWindow(windows, station_id, start_utc, end_utc, min_fetched_at_utc) ==
    LET matches == CoveringWindows(windows, station_id, start_utc, end_utc)
    IN  IF matches = {} THEN FALSE
        ELSE IsFresh(FromIsoFormat(LatestFetched(matches).fetched_at_utc),
                     min_fetched_at_utc)

(***************************************************************************)
(* SQLiteRepository.get_measurements                                       *)
(***************************************************************************)
\* WHERE station_id = ? AND measured_at_utc >= ? AND measured_at_utc <= ?
SelectedMeasurements(table, station_id, start_utc, end_utc) ==
    {r \in table : r.station_id = station_id
                   /\ TextLE(IsoFormat(start_utc), r.measured_at_utc)
                   /\ TextLE(r.measured_at_utc, IsoFormat(end_utc))}

\* ORDER BY measured_at_utc ASC (the primary key makes the order total
\* within one station)
RECURSIVE OrderByMeasuredAt(_)
OrderByMeasuredAt(rows) ==
    IF rows = {} THEN <<>>
    ELSE LET first == CHOOSE r \in rows :
                         \A q \in rows : TextLE(r.measured_at_utc, q.measured_at_utc)
         IN  <<first>> \o OrderByMeasuredAt(rows \ {first})

\* SourceMeasurement(station_name=row[...], measured_at_utc=fromisoformat(...), ...)
RowToMeasurement(r) ==
    SourceMeasurement(r.station_name, FromIsoFormat(r.measured_at_utc),
                      r.temperature_c, r.pressure_hpa, r.speed_mps,
                      r.direction_deg, r.latitude, r.longitude, r.altitude_m)

GetMeasurements(table, station_id, start_utc, end_utc) ==
    LET result == OrderByMeasuredAt(
                      SelectedMeasurements(table, station_id, start_utc, end_utc))
    IN  [i \in 1..Len(result) |-> RowToMeasurement(result[i])]

(***************************************************************************)
(* AemetClient: the rows of the provider's data payload and their mapping. *)
(* A raw row carries the provider's keys; fhora is an ISO string.  The     *)
(* values are tagged by field (temp 11/12, pres 21/22, ...) so that a      *)
(* value written to the wrong column shows.                                *)
(***************************************************************************)
\* a JSON string
JsonStr(chars) == [type |-> "str", int |-> 0, str |-> chars]

\* a JSON integer
JsonInt(n) == [type |-> "int", int |-> n, str |-> <<>>]

\* bool(value): None, "" and 0 are false
Truthy(value) ==
    /\ value # None
    /\ IF value[1].type = "int" THEN value[1].int # 0 ELSE value[1].str # <<>>

\* a or b
Or(a, b) == IF Truthy(a) THEN a ELSE b

\* a raw row with every key _map_row reads; a key the row does not have is
\* None, as row.get returns it
RawRowOf(nombre, fhora, temp, pres, vel, dir, lat, latitud, lon, long, longitud, alt, altitud) ==
    [nombre |-> nombre, fhora |-> fhora, temp |-> temp, pres |-> pres,
     vel |-> vel, dir |-> dir, lat |-> lat, latitud |-> latitud, lon |-> lon,
     long |-> long, longitud |-> longitud, alt |-> alt, altitud |-> altitud]

\* a raw row with numbers under the first key of each field, or without
\* values (v = 0) and without coordinates (g = 0)
RawRow(nombre, fhora, v, g) ==
    RawRowOf(nombre, fhora,
             IF v = 0 THEN None ELSE Some(JsonInt(10 + v)),
             IF v = 0 THEN None ELSE Some(JsonInt(20 + v)),
             IF v = 0 THEN None ELSE Some(JsonInt(30 + v)),
             IF v = 0 THEN None ELSE Some(JsonInt(40 + v)),
             IF g = 0 THEN None ELSE Some(JsonInt(50 + g)), None,
             IF g = 0 THEN None ELSE Some(JsonInt(60 + g)), None, None,
             IF g = 0 THEN None ELSE Some(JsonInt(70 + g)), None)

\* a raw row whose values are texts that float() reads as nan, inf and -inf
RawRowNotFinite(nombre, fhora) ==
    RawRowOf(nombre, fhora,
             Some(JsonStr(<<"n", "a", "n">>)), Some(JsonStr(<<"n", "a", "n">>)),
             Some(JsonStr(<<"i", "n", "f">>)), Some(JsonStr(<<"-", "i", "n", "f">>)),
             Some(JsonStr(<<"n", "a", "n">>)), None,
             Some(JsonStr(<<"i", "n", "f">>)), None, None,
             Some(JsonStr(<<"-", "i", "n", "f">>)), None)

\* float(text) on the texts of the model; a text that is no number raises
\* ValueError, which _to_float turns into None
ParseFloat(chars) ==
    CASE chars = <<"0">> -> Some(0)
      [] chars = <<"7">> -> Some(7)
      [] chars = <<"n", "a", "n">> -> NaN
      [] chars = <<"i", "n", "f">> -> PosInf
      [] chars = <<"-", "i", "n", "f">> -> NegInf
      [] OTHER -> None

\* AemetClient._to_float
ToFloat(value) ==
    IF value = None \/ value = Some(JsonStr(<<>>)) THEN None
    ELSE IF value[1].type = "int" THEN Some(value[1].int)
    ELSE ParseFloat(value[1].str)

\* AemetClient._map_row: the offset of fhora is kept as the provider sent it
MapRow(row) ==
    SourceMeasurement(row.nombre, FromIsoFormat(row.fhora),
                      ToFloat(row.temp), ToFloat(row.pres), ToFloat(row.vel),
                      ToFloat(row.dir),
                      ToFloat(Or(row.lat, row.latitud)),
                      ToFloat(Or(Or(row.lon, row.long), row.longitud)),
                      ToFloat(Or(row.alt, row.altitud)))

\* return [self._map_row(row) for row in raw_items]
MapRows(raw_items) == [i \in 1..Len(raw_items) |-> MapRow(raw_items[i])]

(***************************************************************************)
(* Inputs of the model: the data payloads the provider may answer with and *)
(* the requests a caller may make.                                         *)
(***************************************************************************)
\* fhora values: 00:30Z, the same instant written 01:30+01:00, and 01:30Z
Fhora0030Z == <<30, Some(0)>>

Fhora0130Plus1 == <<90, Some(60)>>

Fhora0130Z == <<90, Some(0)>>

\* payloads answered to get_data in Spec
RawPayloads ==
    {<<>>,
     <<RawRow("X", Fhora0030Z, 1, 1), RawRowNotFinite("Y", Fhora0130Plus1)>>}

\* the raw rows of StoreSpec: three rows of one instant that differ in every
\* value (all present, all absent, all present and different), and a row at
\* each of the other two fhora values
StoreRawRows ==
    {RawRow("X", Fhora0030Z, 1, 1),
     RawRow("Y", Fhora0030Z, 0, 0),
     RawRow("Z", Fhora0030Z, 2, 2),
     RawRow("X", Fhora0130Plus1, 1, 1),
     RawRow("X", Fhora0130Z, 1, 1)}

\* row lists handed to upsert_measurements in StoreSpec: none, each row
\* alone, one row twice, and two rows of one instant
StorePayloads ==
    {<<>>}
    \cup {<<row>> : row \in StoreRawRows}
    \cup {<<RawRow("Y", Fhora0030Z, 0, 0), RawRow("Y", Fhora0030Z, 0, 0)>>,
          <<RawRow("X", Fhora0030Z, 1, 1), RawRow("Y", Fhora0030Z, 0, 0)>>}

\* Station enum and Settings.gabriel_station_id / juan_station_id
StationEnum == {"GABRIEL_DE_CASTILLA", "JUAN_CARLOS_I"}

gabriel_station_id == "89064"

juan_station_id == "89070"

\* AntartidaService.station_id_for
StationIdFor(station) ==
    IF station = "GABRIEL_DE_CASTILLA" THEN gabriel_station_id ELSE juan_station_id

\* the station requested in Spec
RequestStations == {"GABRIEL_DE_CASTILLA"}

\* [00:00Z, 01:00Z], [01:00Z, 02:00Z] and [00:00Z, 02:00Z] as local windows
Window0001 == <<DateTime(60, 60), DateTime(120, 60)>>

Window0102 == <<DateTime(60, 0), DateTime(120, 0)>>

Window0002 == <<DateTime(60, 60), DateTime(120, 0)>>

\* (start_local, end_local) of a request
RequestWindows == {Window0001, Window0102, Window0002}

\* (station, window, raw rows) of the upsert_measurements calls of StoreSpec:
\* every row list under one window, the other windows with no rows, and the
\* second station with a window and a row of its own
StoreInputs ==
    {<<"GABRIEL_DE_CASTILLA", Window0001, raw_items>> : raw_items \in StorePayloads}
    \cup {<<"GABRIEL_DE_CASTILLA", Window0102, <<>>>>,
          <<"GABRIEL_DE_CASTILLA", Window0002, <<>>>>,
          <<"JUAN_CARLOS_I", Window0002, <<RawRow("Z", Fhora0030Z, 2, 2)>>>>,
          <<"JUAN_CARLOS_I", Window0001, <<>>>>}

\* TimeAggregation values the model requests
Aggregations == {"none"}

\* selected_types values the model requests
TypeSelections == {{}, {"temperature", "direction"}}

(***************************************************************************)
(* AntartidaService._aggregate and _to_output                              *)
(***************************************************************************)
(***************************************************************************)
(* ZoneInfo("Europe/Madrid") in 2024.  The clock face of the model counts  *)
(* minutes from 2024-03-30T00:00: a day is 1440 of them, 2024-03-31 is day *)
(* 1 and 2024-10-27 is day 211.  Summer time starts at 2024-03-31T01:00Z   *)
(* and ends at 2024-10-27T01:00Z.                                          *)
(***************************************************************************)
DstStart == 1440 + 60

DstEnd == (211 * 1440) + 60

\* utcoffset of Europe/Madrid at an absolute instant, in minutes
MadridUtcOffset(instant) ==
    IF DstStart <= instant /\ instant < DstEnd THEN 120 ELSE 60

\* a variant that buckets on the UTC calendar
AsLocalUtc(dt) == [wall |-> Instant(dt), fold |-> 0]

\* dt.astimezone(MADRID_TZ) as the aggregation uses it: the wall clock and
\* the fold attribute (1 in the second pass of the hour repeated when summer
\* time ends)
AsLocalMadrid(dt) ==
    [wall |-> Instant(dt) + MadridUtcOffset(Instant(dt)),
     fold |-> IF DstEnd <= Instant(dt) /\ Instant(dt) < DstEnd + 60 THEN 1 ELSE 0]

\* utcoffset of a wall-clock reading with tzinfo MADRID_TZ: in the skipped
\* hour and in the repeated hour fold = 0 takes the offset before the
\* transition and fold = 1 the offset after it
MadridOffsetOfLocal(wall, fold) ==
    IF fold = 0
    THEN IF wall < DstStart + 120 THEN 60
         ELSE IF wall < DstEnd + 120 THEN 120 ELSE 60
    ELSE IF wall < DstStart + 60 THEN 60
         ELSE IF wall < DstEnd + 60 THEN 120 ELSE 60

\* the days (counted from 2024-03-30) that are the first of a month, March
\* to December 2024
MonthFirstDays == {0 - 29, 2, 32, 63, 93, 124, 155, 185, 216, 246}

\* local_dt.replace(minute=0, second=0, microsecond=0)
HourStart(wall) == wall - (wall % 60)

\* local_dt.replace(hour=0, minute=0, second=0, microsecond=0)
DayStart(wall) == wall - (wall % 1440)

\* local_dt.replace(day=1, hour=0, minute=0, second=0, microsecond=0)
MonthStart(wall) ==
    LET first == CHOOSE d \in MonthFirstDays :
                     /\ d * 1440 <= wall
                     /\ \A e \in MonthFirstDays : e * 1440 <= wall => e <= d
    IN  first * 1440

\* the grouping key of a row: replace() keeps tzinfo and fold
BucketKey(local_dt, aggregation) ==
    [wall |-> IF aggregation = "hourly" THEN HourStart(local_dt.wall)
              ELSE IF aggregation = "daily" THEN DayStart(local_dt.wall)
              ELSE MonthStart(local_dt.wall),
     fold |-> local_dt.fold]

(***************************************************************************)
(* Floats.  A measured value is a whole number of thousandths.             *)
(***************************************************************************)
\* [v for v in values if v is not None]
Present(values) == SelectSeq(values, LAMBDA v : v # None)

RECURSIVE SumOf(_)
SumOf(values) ==
    IF values = <<>> THEN 0 ELSE Head(values)[1] + SumOf(Tail(values))

\* round(n / d, 3) of a quotient of thousandths: the nearest thousandth (the
\* value lists of the model produce no quotient halfway between two)
RoundQuotient(n, d) == ((2 * n) + d) \div (2 * d)

\* a variant that counts an absent value as zero
AvgAbsentAsZero(values) ==
    IF values = <<>> THEN None
    ELSE Some(RoundQuotient(SumOf(Present(values)), Len(values)))

\* AntartidaService._avg
Avg(values) ==
    LET real == Present(values)
    IN  IF real = <<>> THEN None
        ELSE Some(RoundQuotient(SumOf(real), Len(real)))

(***************************************************************************)
(* cos(radians(a)) and sin(radians(a)) as the doubles they are: m is the   *)
(* value in millionths and e, in units of 1e-20, what the double holds     *)
(* beyond the exact value (radians(180) is not pi, so sin gives 1.22e-16   *)
(* where the exact sine is 0).  When two such doubles have opposite m they *)
(* add to exactly the sum of their e; otherwise e is far below m.  The     *)
(* model averages at most two directions of 0, 10, 90, 180 and 350         *)
(* degrees, given in thousandths of a degree.                              *)
(***************************************************************************)
Cos(a) ==
    CASE a = 0 -> [m |-> 1000000, e |-> 0]
      [] a = 10000 -> [m |-> 984808, e |-> 0]
      [] a = 90000 -> [m |-> 0, e |-> 6123]
      [] a = 180000 -> [m |-> 0 - 1000000, e |-> 0]
      [] a = 350000 -> [m |-> 984808, e |-> 0]

Sin(a) ==
    CASE a = 0 -> [m |-> 0, e |-> 0]
      [] a = 10000 -> [m |-> 173648, e |-> 0]
      [] a = 90000 -> [m |-> 1000000, e |-> 0]
      [] a = 180000 -> [m |-> 0, e |-> 12246]
      [] a = 350000 -> [m |-> 0 - 173648, e |-> 0 - 5551]

\* sum(...) of such doubles
RECURSIVE SumFloats(_)
SumFloats(fs) ==
    IF fs = <<>> THEN [m |-> 0, e |-> 0]
    ELSE LET rest == SumFloats(Tail(fs))
         IN  [m |-> Head(fs).m + rest.m, e |-> Head(fs).e + rest.e]

\* x == 0 (a double is zero when nothing of it is left)
IsZero(f) == f.m = 0 /\ f.e = 0

\* atan2(y, x) in thousandths of a degree, for y and x both well away from
\* zero, taken modulo 360 and rounded
ArcTanDeg(ym, xm) ==
    CASE ym = 173648 /\ xm = 984808 -> 10000
      [] ym = 0 - 173648 /\ xm = 984808 -> 350000
      [] ym = 173648 /\ xm = 1984808 -> 5000
      [] ym = 0 - 173648 /\ xm = 1984808 -> 355000
      [] ym = 1000000 /\ xm = 1000000 -> 45000
      [] ym = 347296 /\ xm = 1969616 -> 10000
      [] ym = 0 - 347296 /\ xm = 1969616 -> 350000
      [] ym = 1173648 /\ xm = 984808 -> 50000
      [] ym = 826352 /\ xm = 984808 -> 40000
      [] ym = 173648 /\ xm = 0 - 15192 -> 95000
      [] ym = 0 - 173648 /\ xm = 0 - 15192 -> 265000
      [] ym = 1000000 /\ xm = 0 - 1000000 -> 135000

\* round((atan2(y, x) * 180.0 / 3.141592653589793) % 360, 3): when one of the
\* two is (all but) zero the angle lies on an axis, and a y just below zero
\* with x > 0 gives an angle just below 360, which rounds to 360.0
Atan2Deg(y, x) ==
    LET ys == IF y.m # 0 THEN y.m ELSE IF x.m # 0 THEN 0 ELSE y.e
        xs == IF x.m # 0 THEN x.m ELSE IF y.m # 0 THEN 0 ELSE x.e
    IN  IF ys = 0 /\ xs > 0 THEN (IF y.e < 0 THEN 360000 ELSE 0)
        ELSE IF ys = 0 THEN 180000
        ELSE IF xs = 0 THEN (IF ys > 0 THEN 90000 ELSE 270000)
        ELSE ArcTanDeg(ys, xs)

\* AntartidaService._avg_angle_deg
AvgAngleDeg(values) ==
    LET angles == Present(values)
        x == SumFloats([i \in 1..Len(angles) |-> Cos(angles[i][1])])
        y == SumFloats([i \in 1..Len(angles) |-> Sin(angles[i][1])])
    IN  IF angles = <<>> THEN None
        ELSE IF IsZero(x) /\ IsZero(y) THEN None
        ELSE Some(Atan2Deg(y, x))

\* sorted(grouped.items(), key=lambda pair: pair[0]): the keys in ascending
\* order (two datetimes of one tzinfo compare by wall clock)
RECURSIVE SortedKeysDescending(_)
\* a variant that sorts the keys with reverse=True
SortedKeysDescending(walls) ==
    IF walls = {} THEN <<>>
    ELSE LET greatest == CHOOSE w \in walls : \A v \in walls : v <= w
         IN  <<greatest>> \o SortedKeysDescending(walls \ {greatest})

RECURSIVE SortedKeys(_)
SortedKeys(walls) ==
    IF walls = {} THEN <<>>
    ELSE LET least == CHOOSE w \in walls : \A v \in walls : w <= v
         IN  <<least>> \o SortedKeys(walls \ {least})

\* the key of rows[i]
RowKey(row, aggregation) ==
    BucketKey(AsLocalMadrid(row.measured_at_utc), aggregation)

\* grouped[key]: the rows of one key in the order they came; two keys are
\* the same dict key when their wall clocks are equal
\* a variant that keeps only the first row of the bucket
BucketItemsFirstOnly(rows, aggregation, wall) ==
    LET items == SelectSeq(rows, LAMBDA row : RowKey(row, aggregation).wall = wall)
    IN  IF items = <<>> THEN <<>> ELSE <<Head(items)>>

BucketItems(rows, aggregation, wall) ==
    SelectSeq(rows, LAMBDA row : RowKey(row, aggregation).wall = wall)

\* one aggregated row; the dict keeps the key object inserted first
BucketRow(items, aggregation) ==
    LET key == RowKey(items[1], aggregation)
        column(field) == [i \in 1..Len(items) |-> items[i][field]]
    IN  SourceMeasurement(
            items[1].station_name,
            DateTime(key.wall - MadridOffsetOfLocal(key.wall, key.fold), 0),
            Avg(column("temperature_c")),
            Avg(column("pressure_hpa")),
            Avg(column("speed_mps")),
            AvgAngleDeg(column("direction_deg")),
            items[1].latitude, items[1].longitude, items[1].altitude_m)

\* AntartidaService._aggregate
Aggregate(rows, aggregation) ==
    IF aggregation = "none" THEN rows
    ELSE LET walls == {RowKey(rows[i], aggregation).wall : i \in 1..Len(rows)}
             keys == SortedKeys(walls)
         IN  [n \in 1..Len(keys) |->
                 BucketRow(BucketItems(rows, aggregation, keys[n]), aggregation)]

\* dt.astimezone(MADRID_TZ)
AsTimezoneMadrid(dt) ==
    DateTime(Instant(dt) + MadridUtcOffset(Instant(dt)), MadridUtcOffset(Instant(dt)))

\* a variant that passes every quantity whatever the selection
ToOutputUnfiltered(row, selected_types) ==
    [stationName |-> row.station_name,
     datetime |-> AsTimezoneMadrid(row.measured_at_utc),
     temperature |-> row.temperature_c,
     pressure |-> row.pressure_hpa,
     speed |-> row.speed_mps,
     direction |-> row.direction_deg,
     latitude |-> row.latitude,
     longitude |-> row.longitude,
     altitude |-> row.altitude_m]

\* a variant that treats the coordinates as a quantity nobody can select
ToOutputGeoSelected(row, selected_types) ==
    LET include(type) == selected_types = {} \/ type \in selected_types
    IN  [stationName |-> row.station_name,
         datetime |-> AsTimezoneMadrid(row.measured_at_utc),
         temperature |-> IF include("temperature") THEN row.temperature_c ELSE None,
         pressure |-> IF include("pressure") THEN row.pressure_hpa ELSE None,
         speed |-> IF include("speed") THEN row.speed_mps ELSE None,
         direction |-> IF include("direction") THEN row.direction_deg ELSE None,
         latitude |-> IF include("geo") THEN row.latitude ELSE None,
         longitude |-> IF include("geo") THEN row.longitude ELSE None,
         altitude |-> IF include("geo") THEN row.altitude_m ELSE None]

\* AntartidaService._to_output
ToOutput(row, selected_types) ==
    LET include_all == selected_types = {}
        include(type) == include_all \/ type \in selected_types
    IN  [stationName |-> row.station_name,
         datetime |-> AsTimezoneMadrid(row.measured_at_utc),
         temperature |-> IF include("temperature") THEN row.temperature_c ELSE None,
         pressure |-> IF include("pressure") THEN row.pressure_hpa ELSE None,
         speed |-> IF include("speed") THEN row.speed_mps ELSE None,
         direction |-> IF include("direction") THEN row.direction_deg ELSE None,
         latitude |-> row.latitude,
         longitude |-> row.longitude,
         altitude |-> row.altitude_m]

\* return [self._to_output(row, selected_types) for row in transformed]
Outputs(rows, aggregation, selected_types) ==
    LET transformed == Aggregate(rows, aggregation)
    IN  [i \in 1..Len(transformed) |-> ToOutput(transformed[i], selected_types)]

(***************************************************************************)
(* State.                                                                  *)
(*   now            the wall clock read by datetime.utcnow()               *)
(*   measurements   committed rows of table measurements                   *)
(*   fetch_windows  committed rows of table fetch_windows                  *)
(*   req[p]         the locals of thread p's get_data call and its place   *)
(*   conn[p]        the uncommitted view of p's write connection           *)
(*   nreq           get_data calls started so far                          *)
(*   call           StoreSpec: the last repository call and its result     *)
(***************************************************************************)
VARIABLES now, measurements, fetch_windows, station_catalog, req, conn, nreq,
          call, client

vars == <<now, measurements, fetch_windows, station_catalog, req, conn, nreq,
          call, client>>

\* a thread that is not inside get_data.  dirty records that another thread
\* committed while this call was running.
IdleReq ==
    [pc |-> "idle", station_id |-> "", start_utc |-> DateTime(0, 0),
     end_utc |-> DateTime(0, 0), has_fresh_cache |-> FALSE,
     remote_rows |-> <<>>, now_utc |-> IsoFormat(NaiveDateTime(0)),
     fetch_args |-> <<>>, rows |-> <<>>, error |-> "", fetch_calls |-> 0,
     upsert_calls |-> 0, dirty |-> FALSE, waited |-> FALSE]

\* no write transaction open
NoConn == [open |-> FALSE, measurements |-> {}, fetch_windows |-> {}]

\* no client call made
NoClient ==
    [op |-> "none", api_key |-> "",
     meta_response |-> [status_code |-> 0, body |-> [kind |-> "invalid", datos |-> <<>>, estado |-> <<>>, descripcion |-> <<>>, items |-> <<>>]],
     data_response |-> [status_code |-> 0, body |-> [kind |-> "invalid", datos |-> <<>>, estado |-> <<>>, descripcion |-> <<>>, items |-> <<>>]],
     requests |-> <<>>,
     outcome |-> [kind |-> "none", items |-> <<>>, message |-> <<>>]]

\* no repository call made yet
NoCall ==
    [op |-> "none", n |-> 0, station_id |-> "", start_utc |-> DateTime(0, 0),
     end_utc |-> DateTime(0, 0), rows |-> <<>>, now_utc |-> IsoFormat(NaiveDateTime(0)),
     fresh |-> FALSE, result |-> <<>>, aggregation |-> "none",
     selected_types |-> {}, transformed |-> <<>>,
     min_fetched_at_utc |-> DateTime(0, 0), returned |-> None,
     last_fetched_at |-> None]

\* datetime.utcnow(): naive
UtcNow == NaiveDateTime(now)

\* datetime.utcnow() - timedelta(seconds=cache_freshness_seconds)
MinFetchedAt == NaiveDateTime(now - cache_freshness_seconds)

Init ==
    /\ now = 0
    /\ measurements = {}
    /\ fetch_windows = {}
    /\ station_catalog = {}
    /\ req = [p \in Procs |-> IdleReq]
    /\ conn = [p \in Procs |-> NoConn]
    /\ nreq = 0
    /\ call = NoCall
    /\ client = NoClient

\* the clock advances
Tick ==
    /\ now < MaxNow
    /\ now' = now + 1
    /\ UNCHANGED <<station_catalog, client, measurements, fetch_windows, req, conn, nreq, call>>

\* a variant that fetches whatever the cache check said
AfterCacheCheckAlwaysFetch(has_fresh_cache) == "fetch"

\* `if has_fresh_cache: ... else: ...` of get_data: where the call goes next
AfterCacheCheck(has_fresh_cache) ==
    IF has_fresh_cache THEN "read" ELSE "fetch"

\* self.aemet_client.fetch_station_data(start_utc, end_utc, station_id)
FetchArgs(station_id, start_utc, end_utc) == <<start_utc, end_utc, station_id>>

\* a variant that leaves the connection of the cache lookup open, holding
\* the lock
ReadConnectionLeftOpen(c) == [c EXCEPT !.open = TRUE]

\* _read_connection: `finally: conn.close()` ends the cache lookup
ReadConnectionClosed(c) == NoConn

\* get_data, lines 36-52: resolve the station, convert the window to UTC,
\* query has_fresh_fetch_window; on a miss the remote call is issued.
\* Threads are interchangeable: a request goes to the first free one.
Start(p, station, window) ==
    /\ req[p].pc = "idle"
    /\ \A q \in Procs : q < p => req[q].pc # "idle"
    /\ nreq < MaxRequests
    /\ LET station_id == StationIdFor(station)
           start_utc == AsTimezoneUTC(window[1])
           end_utc == AsTimezoneUTC(window[2])
           has_fresh_cache ==
               HasFreshFetchWindow(fetch_windows, station_id, start_utc,
                                   end_utc, MinFetchedAt)
           next == AfterCacheCheck(has_fresh_cache)
       IN  req' = [req EXCEPT ![p] =
                     [IdleReq EXCEPT !.pc = next,
                                     !.station_id = station_id,
                                     !.start_utc = start_utc,
                                     !.end_utc = end_utc,
                                     !.has_fresh_cache = has_fresh_cache,
                                     !.fetch_args =
                                         IF next = "fetch"
                                         THEN FetchArgs(station_id, start_utc, end_utc)
                                         ELSE <<>>,
                                     !.fetch_calls = IF next = "fetch" THEN 1 ELSE 0]]
    /\ conn' = [conn EXCEPT ![p] = ReadConnectionClosed(@)]
    /\ nreq' = nreq + 1
    /\ UNCHANGED <<station_catalog, client, now, measurements, fetch_windows, call>>

\* fetch_station_data returns the mapped rows; upsert_measurements is called
\* with them and reads now_utc = datetime.utcnow().isoformat()
FetchReturns(p, raw_items) ==
    /\ req[p].pc = "fetch"
    /\ req' = [req EXCEPT ![p].pc = "tx_rows",
                          ![p].remote_rows = MapRows(raw_items),
                          ![p].upsert_calls = @ + 1,
                          ![p].now_utc = IsoFormat(UtcNow)]
    /\ UNCHANGED <<station_catalog, client, now, measurements, fetch_windows, conn, nreq, call>>

\* a variant that catches the exception and serves the stored rows
OnFetchErrorServeStale(r) == [r EXCEPT !.pc = "read", !.error = "remote"]

\* an exception raised by fetch_station_data is not caught by get_data
OnFetchError(r) == [r EXCEPT !.pc = "error", !.error = "remote"]

\* fetch_station_data raises (HTTP failure, malformed payload, ...)
FetchRaises(p) ==
    /\ req[p].pc = "fetch"
    /\ req' = [req EXCEPT ![p] = OnFetchError(@)]
    /\ UNCHANGED <<station_catalog, client, now, measurements, fetch_windows, conn, nreq, call>>

\* some other connection holds SQLite's write lock
WriteLocked(p) == \E q \in Procs \ {p} : conn[q].open

\* the view of p's connection: its own transaction once it has written,
\* the committed tables before
View(p) ==
    IF conn[p].open THEN conn[p]
    ELSE [open |-> TRUE, measurements |-> measurements,
          fetch_windows |-> fetch_windows]

\* conn.executemany(INSERT INTO measurements ...): the first row written
\* takes the write lock for the implicit transaction; an empty list runs no
\* statement
TxRows(p) ==
    /\ req[p].pc = "tx_rows"
    /\ IF req[p].remote_rows = <<>>
       THEN UNCHANGED conn
       ELSE /\ ~WriteLocked(p)
            /\ conn' = [conn EXCEPT ![p] =
                          [View(p) EXCEPT !.measurements =
                              ExecuteMany(@, req[p].station_id,
                                          req[p].remote_rows, req[p].now_utc)]]
    /\ req' = [req EXCEPT ![p].pc = "tx_window", ![p].waited = FALSE]
    /\ UNCHANGED <<station_catalog, client, now, measurements, fetch_windows, nreq, call>>

\* conn.execute(INSERT INTO fetch_windows ...); takes the write lock when
\* no row was written before
TxWindow(p) ==
    /\ req[p].pc = "tx_window"
    /\ conn[p].open \/ ~WriteLocked(p)
    /\ conn' = [conn EXCEPT ![p] =
                  [View(p) EXCEPT !.fetch_windows =
                      InsertWindow(@, WindowParams(req[p].station_id, req[p].start_utc,
                                                   req[p].end_utc, req[p].now_utc))]]
    /\ req' = [req EXCEPT ![p].pc = "commit", ![p].waited = FALSE]
    /\ UNCHANGED <<station_catalog, client, now, measurements, fetch_windows, nreq, call>>

\* p is at a statement that needs the write lock and another connection
\* holds it
Contending(p) ==
    /\ \/ req[p].pc = "tx_rows" /\ req[p].remote_rows # <<>>
       \/ req[p].pc = "tx_window" /\ ~conn[p].open
    /\ WriteLocked(p)

\* a variant without PRAGMA busy_timeout: SQLITE_BUSY is returned at once
BusyHandlerAbsent(waited) == TRUE

\* PRAGMA busy_timeout = 5000: the statement is retried until 5000 ms of
\* waiting have passed, and only then gives up
BusyHandlerExpired(waited) == waited

\* the busy handler sleeps while the lock is held; the statement goes ahead
\* (TxRows, TxWindow) as soon as a retry finds the lock free
BusyWait(p) ==
    /\ Contending(p)
    /\ ~req[p].waited
    /\ req' = [req EXCEPT ![p].waited = TRUE]
    /\ UNCHANGED <<station_catalog, client, now, measurements, fetch_windows, conn, nreq, call>>

\* the lock is still held when busy_timeout expires:
\* sqlite3.OperationalError (database is locked)
BusyTimeout(p) ==
    /\ Contending(p)
    /\ BusyHandlerExpired(req[p].waited)
    /\ req' = [req EXCEPT ![p].pc = "error", ![p].error = "store",
                          ![p].waited = FALSE]
    /\ UNCHANGED <<station_catalog, client, now, measurements, fetch_windows, conn, nreq, call>>

\* what the database holds after conn.commit()
Committed(view) == view

\* conn.commit(), then the connection is closed
Commit(p) ==
    /\ req[p].pc = "commit"
    /\ measurements' = Committed(conn[p]).measurements
    /\ fetch_windows' = Committed(conn[p]).fetch_windows
    /\ conn' = [conn EXCEPT ![p] = NoConn]
    /\ req' = [q \in Procs |->
                 IF q = p THEN [req[q] EXCEPT !.pc = "read"]
                 ELSE IF req[q].pc = "idle" THEN req[q]
                 ELSE [req[q] EXCEPT !.dirty = TRUE]]
    /\ UNCHANGED <<station_catalog, client, now, nreq, call>>

\* a variant in autocommit mode: the statements run so far stay
ClosedWithoutCommitKeepsView(committed, view) == view

\* what the database holds after a connection with an open transaction is
\* closed without commit: the transaction is rolled back
ClosedWithoutCommit(committed, view) == committed

\* a statement of the transaction or the commit raises (I/O failure): the
\* `finally: conn.close()` of _write_connection ends the transaction
TxRaises(p) ==
    /\ req[p].pc \in {"tx_window", "commit"}
    /\ conn[p].open
    /\ LET committed == [open |-> FALSE, measurements |-> measurements,
                         fetch_windows |-> fetch_windows]
           left == ClosedWithoutCommit(committed, conn[p])
       IN  /\ measurements' = left.measurements
           /\ fetch_windows' = left.fetch_windows
    /\ conn' = [conn EXCEPT ![p] = NoConn]
    /\ req' = [req EXCEPT ![p].pc = "error", ![p].error = "store"]
    /\ UNCHANGED <<station_catalog, client, now, nreq, call>>

\* get_data, line 60: read the range back from the store
Read(p) ==
    /\ req[p].pc = "read"
    /\ req' = [req EXCEPT ![p].pc = "done",
                          ![p].rows = GetMeasurements(measurements, req[p].station_id,
                                                      req[p].start_utc, req[p].end_utc)]
    /\ UNCHANGED <<station_catalog, client, now, measurements, fetch_windows, conn, nreq, call>>

\* get_data, lines 61-62: what a call that is done returns for the
\* aggregation and selected_types it was given (they are used nowhere before)
GetDataResult(p, aggregation, selected_types) ==
    Outputs(req[p].rows, aggregation, selected_types)

\* the caller has the result (or the exception); the thread is free again
Return(p) ==
    /\ req[p].pc \in {"done", "error"}
    /\ req' = [req EXCEPT ![p] = IdleReq]
    /\ UNCHANGED <<station_catalog, client, now, measurements, fetch_windows, conn, nreq, call>>

Next ==
    \/ Tick
    \/ \E p \in Procs, station \in RequestStations, window \in RequestWindows :
           Start(p, station, window)
    \/ \E p \in Procs, raw_items \in RawPayloads : FetchReturns(p, raw_items)
    \/ \E p \in Procs : FetchRaises(p)
    \/ \E p \in Procs : TxRows(p)
    \/ \E p \in Procs : TxWindow(p)
    \/ \E p \in Procs : BusyWait(p)
    \/ \E p \in Procs : BusyTimeout(p)
    \/ \E p \in Procs : Commit(p)
    \/ \E p \in Procs : TxRaises(p)
    \/ \E p \in Procs : Read(p)
    \/ \E p \in Procs : Return(p)

Spec == Init /\ [][Next]_vars

\* the next step of the request thread p, whichever it is
ThreadStep(p) ==
    \/ \E raw_items \in RawPayloads : FetchReturns(p, raw_items)
    \/ FetchRaises(p)
    \/ TxRows(p)
    \/ TxWindow(p)
    \/ BusyWait(p)
    \/ BusyTimeout(p)
    \/ Commit(p)
    \/ TxRaises(p)
    \/ Read(p)

\* Spec with the scheduling the runtime gives: a thread that can take a step
\* takes one; the HTTP client's timeout_seconds makes a fetch return or
\* raise, busy_timeout makes a statement go ahead or raise
FairSpec == Init /\ [][Next]_vars /\ \A p \in Procs : WF_vars(ThreadStep(p))

(***************************************************************************)
(* StoreSpec: the repository used by one caller at a time, on a wider      *)
(* range of rows and both stations.  Every call is recorded in `call`.     *)
(***************************************************************************)
\* SQLiteRepository.upsert_measurements as one committed transaction
UpsertMeasurements(store, station_id, rows, start_utc, end_utc, now_utc) ==
    [measurements |-> ExecuteMany(store.measurements, station_id, rows, now_utc),
     fetch_windows |-> InsertWindow(store.fetch_windows,
                                    WindowParams(station_id, start_utc, end_utc, now_utc))]

StoreUpsert(station, window, raw_items) ==
    /\ call.n < MaxUpserts
    /\ LET station_id == StationIdFor(station)
           start_utc == AsTimezoneUTC(window[1])
           end_utc == AsTimezoneUTC(window[2])
           rows == MapRows(raw_items)
           now_utc == IsoFormat(UtcNow)
           after == UpsertMeasurements(
                        [measurements |-> measurements, fetch_windows |-> fetch_windows],
                        station_id, rows, start_utc, end_utc, now_utc)
       IN  /\ measurements' = after.measurements
           /\ fetch_windows' = after.fetch_windows
           /\ call' = [NoCall EXCEPT !.op = "upsert_measurements", !.n = call.n + 1,
                                     !.station_id = station_id,
                                     !.start_utc = start_utc, !.end_utc = end_utc,
                                     !.rows = rows, !.now_utc = now_utc]
    /\ UNCHANGED <<station_catalog, client, now, req, conn, nreq>>

\* has_fresh_fetch_window as get_data calls it (min_fetched_at_utc from the
\* clock) and get_measurements, on the committed tables.  The reads change
\* nothing, so one after another adds no state: a read follows a write.
StoreQuery(station, window) ==
    /\ call.op # "query"
    /\ LET station_id == StationIdFor(station)
           start_utc == AsTimezoneUTC(window[1])
           end_utc == AsTimezoneUTC(window[2])
       IN  call' = [NoCall EXCEPT !.op = "query", !.n = call.n,
                                  !.station_id = station_id,
                                  !.start_utc = start_utc, !.end_utc = end_utc,
                                  !.fresh = HasFreshFetchWindow(fetch_windows, station_id,
                                                start_utc, end_utc, MinFetchedAt),
                                  !.result = GetMeasurements(measurements, station_id,
                                                             start_utc, end_utc)]
    /\ UNCHANGED <<station_catalog, client, now, measurements, fetch_windows, req, conn, nreq>>

StoreNext ==
    \/ Tick
    \/ \E input \in StoreInputs : StoreUpsert(input[1], input[2], input[3])
    \/ \E station \in StationEnum, window \in RequestWindows :
           StoreQuery(station, window)

StoreSpec == Init /\ [][StoreNext]_vars

(***************************************************************************)
(* SQLiteRepository: the station catalog.  CatalogSpec makes the catalog   *)
(* calls one at a time, as StoreSpec does for the measurements.            *)
(***************************************************************************)
\* a StationCatalogItem as upsert_station_catalog reads it
StationCatalogItem(station_id, station_name, province, latitude, longitude, altitude_m) ==
    [station_id |-> station_id, station_name |-> station_name,
     province |-> province, latitude |-> latitude, longitude |-> longitude,
     altitude_m |-> altitude_m]

\* datetime.now(timezone.utc): aware, offset 0
NowUtcAware == DateTime(now, 0)

\* the parameter tuple of one catalog row
CatalogParams(row, now_utc) ==
    [station_id |-> row.station_id,
     station_name |-> row.station_name,
     province |-> row.province,
     latitude |-> row.latitude,
     longitude |-> row.longitude,
     altitude_m |-> row.altitude_m,
     fetched_at_utc |-> IsoFormat(now_utc)]

\* a variant that keeps the stored row on a conflict
CatalogConflictKeepsStored(stored, excluded) == stored

\* ON CONFLICT(station_id) DO UPDATE SET every other column = excluded's
CatalogConflictUpdate(stored, excluded) ==
    [stored EXCEPT
        !.station_name = excluded.station_name,
        !.province = excluded.province,
        !.latitude = excluded.latitude,
        !.longitude = excluded.longitude,
        !.altitude_m = excluded.altitude_m,
        !.fetched_at_utc = excluded.fetched_at_utc]

\* INSERT INTO station_catalog ... ON CONFLICT(station_id) DO UPDATE
InsertCatalogRow(table, new) ==
    LET conflicts == {r \in table : r.station_id = new.station_id}
    IN  IF conflicts = {} THEN table \cup {new}
        ELSE (table \ conflicts)
                 \cup {CatalogConflictUpdate(r, new) : r \in conflicts}

RECURSIVE CatalogExecuteMany(_, _, _)
\* executemany over the rows, in list order
CatalogExecuteMany(table, rows, now_utc) ==
    IF rows = <<>> THEN table
    ELSE CatalogExecuteMany(InsertCatalogRow(table, CatalogParams(Head(rows), now_utc)),
                            Tail(rows), now_utc)

\* SQLiteRepository.upsert_station_catalog: the table after the commit and
\* the value returned
UpsertStationCatalog(table, rows, now_utc) ==
    [station_catalog |-> CatalogExecuteMany(table, rows, now_utc),
     returned |-> now_utc]

\* a variant that reads the stamp of an arbitrary row
AnyFetchedAt(table) ==
    IF table = {} THEN None
    ELSE Some((CHOOSE r \in table :
                  \A q \in table : TextLE(r.fetched_at_utc, q.fetched_at_utc)).fetched_at_utc)

\* SELECT MAX(fetched_at_utc) FROM station_catalog: NULL on an empty table
MaxFetchedAt(table) ==
    IF table = {} THEN None
    ELSE Some((CHOOSE r \in table :
                  \A q \in table : TextLE(q.fetched_at_utc, r.fetched_at_utc)).fetched_at_utc)

\* SQLiteRepository.has_fresh_station_catalog
HasFreshStationCatalog(table, min_fetched_at_utc) ==
    LET last_fetched_at_utc == MaxFetchedAt(table)
    IN  IF last_fetched_at_utc = None THEN FALSE
        ELSE DateTimeGE(FromIsoFormat(last_fetched_at_utc[1]), min_fetched_at_utc)

\* SQLiteRepository.get_station_catalog_last_fetched_at
GetStationCatalogLastFetchedAt(table) ==
    LET last_fetched_at_utc == MaxFetchedAt(table)
    IN  IF last_fetched_at_utc = None THEN None
        ELSE Some(FromIsoFormat(last_fetched_at_utc[1]))

\* BINARY collation on the station names of the model: capitals sort
\* before small letters
NameRank(station_name) ==
    CASE station_name = "GABRIEL" -> 1
      [] station_name = "JUAN" -> 2
      [] station_name = "Juan" -> 3
      [] station_name = "gabriel" -> 4

\* ORDER BY station_name ASC
RECURSIVE OrderByStationName(_)
OrderByStationName(rows) ==
    IF rows = {} THEN <<>>
    ELSE LET first == CHOOSE r \in rows :
                         \A q \in rows : NameRank(r.station_name) <= NameRank(q.station_name)
         IN  <<first>> \o OrderByStationName(rows \ {first})

\* StationCatalogItem(stationId=row["station_id"], ...)
RowToCatalogItem(r) ==
    StationCatalogItem(r.station_id, r.station_name, r.province, r.latitude,
                       r.longitude, r.altitude_m)

\* SQLiteRepository.get_station_catalog
GetStationCatalog(table) ==
    LET result == OrderByStationName(table)
    IN  [i \in 1..Len(result) |-> RowToCatalogItem(result[i])]

\* catalog items of the model: two stations, each under two names, with
\* and without province and coordinates
Gabriel1 == StationCatalogItem("89064", "gabriel", Some("ANTARTIDA"), Some(62), Some(60), Some(14))

Gabriel2 == StationCatalogItem("89064", "GABRIEL", None, None, None, None)

Juan1 == StationCatalogItem("89070", "JUAN", Some("ANTARTIDA"), Some(63), Some(61), Some(12))

Juan2 == StationCatalogItem("89070", "Juan", None, Some(63), None, None)

\* row lists handed to upsert_station_catalog: none, one station, both in
\* either order of name, and one station twice in a list
CatalogInputs ==
    {<<>>, <<Gabriel1>>, <<Gabriel2>>, <<Juan1>>, <<Gabriel1, Juan1>>,
     <<Juan2, Gabriel2>>, <<Gabriel1, Gabriel2>>}

\* min_fetched_at_utc values: every tick as a UTC datetime, and the first
\* tick written with offset +01:00
MinFetchedAtInputs ==
    {DateTime(t, 0) : t \in 0..MaxNow} \cup {DateTime(60, 60), DateTime(61, 60)}

\* upsert_station_catalog(rows) as one committed transaction
CatalogUpsert(rows) ==
    /\ call.n < MaxUpserts
    /\ LET after == UpsertStationCatalog(station_catalog, rows, NowUtcAware)
       IN  /\ station_catalog' = after.station_catalog
           /\ call' = [NoCall EXCEPT !.op = "upsert_station_catalog",
                                     !.n = call.n + 1,
                                     !.rows = rows,
                                     !.now_utc = IsoFormat(NowUtcAware),
                                     !.returned = Some(after.returned)]
    /\ UNCHANGED <<client, now, measurements, fetch_windows, req, conn, nreq>>

\* has_fresh_station_catalog, get_station_catalog_last_fetched_at and
\* get_station_catalog on the committed table
CatalogQuery(min_fetched_at_utc) ==
    /\ call.op # "catalog_query"
    /\ call' = [NoCall EXCEPT !.op = "catalog_query", !.n = call.n,
                              !.min_fetched_at_utc = min_fetched_at_utc,
                              !.fresh = HasFreshStationCatalog(station_catalog,
                                                               min_fetched_at_utc),
                              !.last_fetched_at =
                                  GetStationCatalogLastFetchedAt(station_catalog),
                              !.result = GetStationCatalog(station_catalog)]
    /\ UNCHANGED <<client, now, measurements, fetch_windows, station_catalog, req,
                   conn, nreq>>

CatalogNext ==
    \/ Tick
    \/ \E rows \in CatalogInputs : CatalogUpsert(rows)
    \/ \E min_fetched_at_utc \in MinFetchedAtInputs : CatalogQuery(min_fetched_at_utc)

CatalogSpec == Init /\ [][CatalogNext]_vars

(***************************************************************************)
(* AggSpec: _aggregate and _to_output applied to row lists as              *)
(* get_measurements hands them over, under every granularity and every     *)
(* selection of measurement types.                                         *)
(***************************************************************************)
\* TimeAggregation
TimeAggregation == {"none", "hourly", "daily", "monthly"}

\* MeasurementType
MeasurementType == {"temperature", "pressure", "speed", "direction"}

\* a stored row read back: observed at `at`, values in thousandths,
\* coordinates present (g > 0) or absent
AggRow(name, at, t, p, s, d, g) ==
    SourceMeasurement(name, at, t, p, s, d,
                      IF g = 0 THEN None ELSE Some(0 - (62000 + g)),
                      IF g = 0 THEN None ELSE Some(0 - (60000 + g)),
                      IF g = 0 THEN None ELSE Some(12000 + g))

\* 00:05Z and 00:15Z of 2024-03-30, temperatures 10.0 and 14.0
RowsTwoTemperatures ==
    <<AggRow("A", DateTime(5, 0), Some(10000), None, None, None, 1),
      AggRow("A", DateTime(15, 0), Some(14000), None, None, None, 1)>>

\* one hour in which no temperature and no speed is present
RowsNoTemperature ==
    <<AggRow("A", DateTime(5, 0), None, Some(990000), None, None, 1),
      AggRow("A", DateTime(15, 0), None, None, None, Some(90000), 1)>>

\* three rows of one hour: negative temperatures with one absent, speeds
\* whose mean is not a whole number of thousandths
RowsThree ==
    <<AggRow("A", DateTime(5, 0), Some(0 - 10000), Some(990000), Some(1000), None, 1),
      AggRow("A", DateTime(15, 0), None, Some(991000), Some(1000), None, 1),
      AggRow("A", DateTime(25, 0), Some(0 - 11000), None, Some(2000), Some(10000), 1)>>

\* directions 350 and 10
RowsNorth ==
    <<AggRow("A", DateTime(5, 0), Some(1000), None, Some(3000), Some(350000), 1),
      AggRow("A", DateTime(15, 0), Some(2000), None, Some(3000), Some(10000), 1)>>

\* directions 0 and 180
RowsOpposite ==
    <<AggRow("A", DateTime(5, 0), Some(1000), None, Some(3000), Some(0), 1),
      AggRow("A", DateTime(15, 0), Some(2000), None, Some(3000), Some(180000), 1)>>

\* directions 90 and 180, and a second hour with one row
RowsTwoHours ==
    <<AggRow("A", DateTime(5, 0), Some(1000), Some(990000), None, Some(90000), 1),
      AggRow("A", DateTime(55, 0), Some(3000), Some(992000), None, Some(180000), 1),
      AggRow("A", DateTime(65, 0), Some(5000), Some(994000), None, Some(0), 1)>>

\* 2024-03-30T23:30Z and 2024-03-31T21:30Z: 00:30+01:00 and 23:30+02:00 of
\* 2024-03-31 in Madrid
RowsSpringForwardDay ==
    <<AggRow("A", DateTime(1410, 0), Some(1000), None, None, None, 1),
      AggRow("A", DateTime(1440 + 1290, 0), Some(3000), None, None, None, 1)>>

\* 2024-03-31T21:30Z and 2024-03-31T23:00Z: 23:30 of 31 March and 01:00 of
\* 1 April in Madrid
RowsMonthEnd ==
    <<AggRow("A", DateTime(1440 + 1290, 0), Some(1000), None, None, Some(10000), 1),
      AggRow("A", DateTime(1440 + 1380, 0), Some(3000), None, None, Some(10000), 1)>>

\* 2024-03-30T22:30Z and 23:10Z: the UTC day is the same, the Madrid day
\* is not
RowsMidnight ==
    <<AggRow("A", DateTime(1350, 0), Some(1000), None, None, None, 1),
      AggRow("A", DateTime(1390, 0), Some(3000), None, None, None, 1)>>

\* one hour whose rows differ in name and coordinates
RowsTwoNames ==
    <<AggRow("A", DateTime(5, 0), Some(1000), None, None, None, 0),
      AggRow("B", DateTime(15, 0), Some(1000), None, None, None, 2)>>

\* 2024-10-27T00:30Z, 01:30Z and 02:30Z: 02:30+02:00, 02:30+01:00 (the
\* repeated hour) and 03:30+01:00 in Madrid; the second row has another
\* name and no coordinates
RowsFallBack ==
    <<AggRow("A", DateTime((211 * 1440) + 30, 0), Some(1000), None, None, Some(10000), 1),
      AggRow("B", DateTime((211 * 1440) + 90, 0), Some(3000), None, None, None, 0),
      AggRow("A", DateTime((211 * 1440) + 150, 0), Some(5000), None, None, Some(10000), 1)>>

\* one row, every value present
RowsOne ==
    <<AggRow("A", DateTime(5, 0), Some(1000), Some(990000), Some(3000), Some(350000), 1)>>

\* the row lists of AggSpec
AggInputs ==
    {<<>>, RowsTwoTemperatures, RowsNoTemperature, RowsThree, RowsNorth,
     RowsOpposite, RowsTwoHours, RowsSpringForwardDay, RowsMonthEnd,
     RowsMidnight, RowsTwoNames, RowsFallBack, RowsOne}

\* get_data, lines 61-62, on the rows read.  The output depends on nothing
\* but these arguments, so a behaviour makes one call.
GetDataOutput(rows, aggregation, selected_types) ==
    /\ call.op = "none"
    /\ call' = [NoCall EXCEPT !.op = "aggregate",
                              !.rows = rows,
                              !.aggregation = aggregation,
                              !.selected_types = selected_types,
                              !.transformed = Aggregate(rows, aggregation),
                              !.result = Outputs(rows, aggregation, selected_types)]
    /\ UNCHANGED <<station_catalog, client, now, measurements, fetch_windows, req, conn, nreq>>

AggNext ==
    \E rows \in AggInputs, aggregation \in TimeAggregation,
       selected_types \in SUBSET MeasurementType :
        GetDataOutput(rows, aggregation, selected_types)

AggSpec == Init /\ [][AggNext]_vars

(***************************************************************************)
(* The provider adapter (AemetClient).  Text is a sequence of characters,  *)
(* a JSON value is a string or an integer, a response is an HTTP status    *)
(* code and a body.                                                        *)
(***************************************************************************)
\* the decimal digit d as a character
DigitChar(d) ==
    CASE d = 0 -> "0" [] d = 1 -> "1" [] d = 2 -> "2" [] d = 3 -> "3"
      [] d = 4 -> "4" [] d = 5 -> "5" [] d = 6 -> "6" [] d = 7 -> "7"
      [] d = 8 -> "8" [] d = 9 -> "9"

RECURSIVE Digits(_)
\* the decimal text of a natural number
Digits(n) == IF n < 10 THEN <<DigitChar(n)>>
             ELSE Append(Digits(n \div 10), DigitChar(n % 10))

\* str(value) and the {value} of an f-string; str(None) is "None"
Str(value) ==
    IF value = None THEN <<"N", "o", "n", "e">>
    ELSE IF value[1].type = "int" THEN Digits(value[1].int)
    ELSE value[1].str

\* isinstance(value, str)
IsStr(value) == value # None /\ value[1].type = "str"

\* str.lower on one character
LowerChar(c) ==
    CASE c = "A" -> "a" [] c = "B" -> "b" [] c = "C" -> "c" [] c = "D" -> "d"
      [] c = "E" -> "e" [] c = "F" -> "f" [] c = "G" -> "g" [] c = "H" -> "h"
      [] c = "I" -> "i" [] c = "J" -> "j" [] c = "K" -> "k" [] c = "L" -> "l"
      [] c = "M" -> "m" [] c = "N" -> "n" [] c = "O" -> "o" [] c = "P" -> "p"
      [] c = "Q" -> "q" [] c = "R" -> "r" [] c = "S" -> "s" [] c = "T" -> "t"
      [] c = "U" -> "u" [] c = "V" -> "v" [] c = "W" -> "w" [] c = "X" -> "x"
      [] c = "Y" -> "y" [] c = "Z" -> "z" [] OTHER -> c

\* str.lower
Lower(chars) == [i \in 1..Len(chars) |-> LowerChar(chars[i])]

\* needle in chars
Contains(needle, chars) ==
    \E i \in 0..(Len(chars) - Len(needle)) :
        SubSeq(chars, i + 1, i + Len(needle)) = needle

\* the literal "no hay datos"
NoHayDatos == <<"n", "o", " ", "h", "a", "y", " ", "d", "a", "t", "o", "s">>

\* the literal "404"
Text404 == <<"4", "0", "4">>

\* a variant that accepts the sentinel whatever the caller allows
IsNoDataAlways(allow_no_data, estado, descripcion) ==
    /\ Str(estado) = Text404
    /\ IsStr(descripcion)
    /\ Contains(NoHayDatos, Lower(descripcion[1].str))

\* a variant that looks at the description only
IsNoDataAnyStatus(allow_no_data, estado, descripcion) ==
    /\ allow_no_data
    /\ IsStr(descripcion)
    /\ Contains(NoHayDatos, Lower(descripcion[1].str))

\* allow_no_data and str(estado) == "404" and isinstance(descripcion, str)
\* and "no hay datos" in descripcion.lower()
IsNoData(allow_no_data, estado, descripcion) ==
    /\ allow_no_data
    /\ Str(estado) = Text404
    /\ IsStr(descripcion)
    /\ Contains(NoHayDatos, Lower(descripcion[1].str))

\* one part of an error message: a literal followed by a formatted value
Part(literal, value) == [literal |-> literal, value |-> value]

\* detail_parts of the error raised for a metadata payload without 'datos'
DetailParts(estado, descripcion) ==
    <<Part("AEMET response missing 'datos' URL", <<>>)>>
    \o (IF estado # None THEN <<Part("estado=", Str(estado))>> ELSE <<>>)
    \o (IF Truthy(descripcion) THEN <<Part("descripcion=", Str(descripcion))>>
        ELSE <<>>)

\* the body of a response: text that is not JSON, a JSON list, or a JSON
\* object with its 'datos', 'estado' and 'descripcion' members
Body(kind, datos, estado, descripcion, items) ==
    [kind |-> kind, datos |-> datos, estado |-> estado,
     descripcion |-> descripcion, items |-> items]

\* a response of the HTTP client
Response(status_code, body) == [status_code |-> status_code, body |-> body]

\* Response.raise_for_status raises for a 4xx or 5xx status code
RaisesForStatus(response) == response.status_code >= 400

\* the outcome of a call: a returned list or a raised RuntimeError
Returned(items) == [kind |-> "return", items |-> items, message |-> <<>>]

Raised(message) == [kind |-> "raise", items |-> <<>>, message |-> message]

\* client.get(endpoint, params={"api_key": self.api_key})
MetaRequest(endpoint, api_key) ==
    [url |-> endpoint, api_key |-> Some(api_key)]

\* client.get(data_url)
DataRequest(data_url) == [url |-> data_url, api_key |-> None]

\* AemetClient._request_data_items: the requests issued and the outcome,
\* given the responses the provider gives to the two requests
RequestDataItems(endpoint, api_key, allow_no_data, meta_response, data_response) ==
    LET meta == <<MetaRequest(endpoint, api_key)>>
        payload == meta_response.body
        data_url == payload.datos
        estado == payload.estado
        descripcion == payload.descripcion
        both == Append(meta, DataRequest(data_url[1].str))
        raw_items == data_response.body
    IN  IF RaisesForStatus(meta_response)
        THEN [requests |-> meta,
              outcome |-> Raised(<<Part("AEMET metadata request failed with HTTP ",
                                        Digits(meta_response.status_code))>>)]
        ELSE IF payload.kind = "invalid"
        THEN [requests |-> meta,
              outcome |-> Raised(<<Part("AEMET metadata response is not valid JSON",
                                        <<>>)>>)]
        ELSE IF payload.kind # "dict"
        THEN [requests |-> meta,
              outcome |-> Raised(<<Part("AEMET metadata response has unexpected shape",
                                        <<>>)>>)]
        ELSE IF ~Truthy(data_url)
        THEN [requests |-> meta,
              outcome |-> IF IsNoData(allow_no_data, estado, descripcion)
                          THEN Returned(<<>>)
                          ELSE Raised(DetailParts(estado, descripcion))]
        ELSE IF RaisesForStatus(data_response)
        THEN [requests |-> both,
              outcome |-> Raised(<<Part("AEMET data download failed with HTTP ",
                                        Digits(data_response.status_code))>>)]
        ELSE IF raw_items.kind = "invalid"
        THEN [requests |-> both,
              outcome |-> Raised(<<Part("AEMET data payload is not valid JSON",
                                        <<>>)>>)]
        ELSE IF raw_items.kind # "list"
        THEN [requests |-> both,
              outcome |-> Raised(<<Part("AEMET data payload has unexpected shape",
                                        <<>>)>>)]
        ELSE [requests |-> both, outcome |-> Returned(raw_items.items)]

\* start_utc.strftime('%Y-%m-%dT%H:%M:%SUTC'): the wall clock of the
\* datetime followed by the letters UTC, whatever its offset
StrfTimeUTC(dt) == <<dt.wall, "UTC">>

\* the measurements endpoint of a window and a station
DataEndpoint(start_utc, end_utc, station_id) ==
    <<"antartida/datos", StrfTimeUTC(start_utc), StrfTimeUTC(end_utc), station_id>>

\* the station inventory endpoint
InventoryEndpoint ==
    <<"valores/climatologicos/inventarioestaciones/todasestaciones">>

\* a variant that goes to the provider whatever the key
KeyMissingNever(api_key) == FALSE

\* if not self.api_key
KeyMissing(api_key) == api_key = ""

\* raise RuntimeError("AEMET_API_KEY environment variable is required")
KeyRequired ==
    Raised(<<Part("AEMET_API_KEY environment variable is required", <<>>)>>)

\* AemetClient.fetch_station_data
FetchStationDataResult(api_key, start_utc, end_utc, station_id, meta_response, data_response) ==
    IF KeyMissing(api_key)
    THEN [requests |-> <<>>, outcome |-> KeyRequired]
    ELSE LET r == RequestDataItems(DataEndpoint(start_utc, end_utc, station_id),
                                   api_key, TRUE, meta_response, data_response)
         IN  IF r.outcome.kind = "return"
             THEN [r EXCEPT !.outcome = Returned(MapRows(r.outcome.items))]
             ELSE r

\* a raw row of the station inventory
InventoryRow(indicativo, idema, nombre, provincia, latitud, altitud) ==
    [indicativo |-> indicativo, idema |-> idema, nombre |-> nombre,
     provincia |-> provincia, latitud |-> latitud, altitud |-> altitud]

\* a or b on texts: None and "" are false
OrText(a, b) == IF a # None /\ a # Some("") THEN a ELSE b

\* str.strip on the texts of the model
Strip(text) ==
    CASE text = " " -> ""
      [] text = " 89064 " -> "89064"
      [] OTHER -> text

\* the station id of an inventory row: indicativo, idema, indicatif or
\* estacion, whichever comes first with a value (the rows of the model do
\* not carry the last two keys), else ""
InventoryStationId(row) ==
    Strip(OrText(OrText(OrText(OrText(row.indicativo, row.idema), None), None),
                 Some(""))[1])

\* the display name of an inventory row: nombre or name, else the id
InventoryStationName(row) ==
    LET station_id == InventoryStationId(row)
        station_name == Strip(OrText(OrText(row.nombre, None), Some(station_id))[1])
    IN  IF station_name = "" THEN station_id ELSE station_name

\* StationCatalogItem of an inventory row (longitude follows latitude)
CatalogItem(row) ==
    [stationId |-> InventoryStationId(row),
     stationName |-> InventoryStationName(row),
     province |-> OrText(OrText(row.provincia, None), None),
     latitude |-> ToFloat(Or(Or(row.latitud, None), None)),
     altitude |-> ToFloat(Or(Or(row.altitud, None), None))]

RECURSIVE Stations(_)
\* the loop of fetch_station_inventory: rows without a station id are skipped
Stations(raw_items) ==
    IF raw_items = <<>> THEN <<>>
    ELSE IF InventoryStationId(Head(raw_items)) = "" THEN Stations(Tail(raw_items))
    ELSE <<CatalogItem(Head(raw_items))>> \o Stations(Tail(raw_items))

\* AemetClient.fetch_station_inventory
FetchStationInventoryResult(api_key, meta_response, data_response) ==
    IF KeyMissing(api_key)
    THEN [requests |-> <<>>, outcome |-> KeyRequired]
    ELSE LET r == RequestDataItems(InventoryEndpoint, api_key, FALSE,
                                   meta_response, data_response)
         IN  IF r.outcome.kind = "return"
             THEN [r EXCEPT !.outcome = Returned(Stations(r.outcome.items))]
             ELSE r

\* the credentials of the model: none, and one
ApiKeys == {"", "key"}

\* descriptions a metadata payload may carry
DescNoData == <<"N", "o", " ", "h", "a", "y", " ", "d", "a", "t", "o", "s", " ", "q", "u", "e", " ", "s", "a", "t", "i", "s", "f", "a", "g", "a", "n", " ", "e", "s", "o", "s", " ", "c", "r", "i", "t", "e", "r", "i", "o", "s">>

DescNoDataUpper == <<"N", "O", " ", "H", "A", "Y", " ", "D", "A", "T", "O", "S">>

DescApiKey == <<"A", "P", "I", " ", "k", "e", "y", " ", "n", "o", " ", "v", "a", "l", "i", "d", "a">>

Descripciones ==
    {None, Some(JsonStr(<<>>)), Some(JsonStr(DescNoData)),
     Some(JsonStr(DescNoDataUpper)), Some(JsonStr(DescApiKey)),
     Some(JsonInt(404))}

\* provider statuses a metadata payload may carry
Estados ==
    {None, Some(JsonInt(404)), Some(JsonStr(Text404)), Some(JsonInt(401)),
     Some(JsonInt(200))}

\* 'datos' members: missing, empty, and a temporary URL
DataUrls == {None, Some(JsonStr(<<>>)), Some(JsonStr(<<"u", "r", "l">>))}

\* responses to the metadata request: every JSON object over the members
\* above with HTTP 200, the no-data object with HTTP 404, a server error,
\* text that is not JSON and a JSON list
MetaResponses ==
    {Response(200, Body("dict", datos, estado, descripcion, <<>>)) :
        datos \in DataUrls, estado \in Estados, descripcion \in Descripciones}
    \cup {Response(404, Body("dict", None, Some(JsonInt(404)),
                             Some(JsonStr(DescNoData)), <<>>)),
          Response(500, Body("invalid", None, None, None, <<>>)),
          Response(200, Body("invalid", None, None, None, <<>>)),
          Response(200, Body("list", None, None, None, <<>>))}

\* raw rows that put the mapping to work: zero, text, the empty text and
\* text that is no finite number under the first keys, with and without a
\* value under a later key
MappingRows ==
    {RawRowOf("M", Fhora0030Z, Some(JsonInt(0)), Some(JsonStr(<<"7">>)),
              Some(JsonStr(<<>>)), Some(JsonStr(<<"0">>)),
              Some(JsonInt(0)), Some(JsonInt(5)),
              Some(JsonStr(<<>>)), None, Some(JsonInt(6)),
              Some(JsonInt(0)), None),
     RawRowOf("N", Fhora0030Z, Some(JsonStr(<<"n", "a", "n">>)),
              Some(JsonStr(<<"i", "n", "f">>)), Some(JsonStr(<<"-", "i", "n", "f">>)),
              Some(JsonStr(<<"x">>)),
              Some(JsonStr(<<"n", "a", "n">>)), Some(JsonInt(5)),
              None, Some(JsonInt(0)), Some(JsonStr(<<"7">>)),
              None, Some(JsonStr(<<"i", "n", "f">>))),
     RawRowOf("O", Fhora0030Z, None, None, None, None,
              Some(JsonInt(8)), Some(JsonInt(5)),
              None, Some(JsonInt(9)), Some(JsonInt(6)),
              None, Some(JsonInt(0)))}

\* data payloads of AdapterSpec: those of Spec and each mapping row alone
AdapterPayloads == RawPayloads \cup {<<row>> : row \in MappingRows}

\* responses to the download of measurements
DataResponses ==
    {Response(200, Body("list", None, None, None, items)) : items \in AdapterPayloads}
    \cup {Response(500, Body("invalid", None, None, None, <<>>)),
          Response(200, Body("invalid", None, None, None, <<>>)),
          Response(200, Body("dict", None, None, None, <<>>))}

\* inventory payloads: none, and three rows of which the second has no id
InventoryPayloads ==
    {<<>>,
     <<InventoryRow(Some(" 89064 "), None, Some("GABRIEL DE CASTILLA"),
                    Some("ANTARTIDA"), Some(JsonInt(62)), Some(JsonInt(14))),
       InventoryRow(Some(" "), Some(""), Some("NOWHERE"), None, None, None),
       InventoryRow(None, Some("89070"), Some(" "), Some(""), Some(JsonInt(0)),
                    Some(JsonStr(<<"7">>)))>>}

\* responses to the download of the inventory
InventoryResponses ==
    {Response(200, Body("list", None, None, None, items)) : items \in InventoryPayloads}
    \cup {Response(500, Body("invalid", None, None, None, <<>>)),
          Response(200, Body("invalid", None, None, None, <<>>)),
          Response(200, Body("dict", None, None, None, <<>>))}

\* a client call: the operation, the credential, the allow_no_data it
\* passes, the responses given, the requests issued and the outcome
ClientCall(op, api_key, meta_response, data_response, result) ==
    [op |-> op, api_key |-> api_key, meta_response |-> meta_response,
     data_response |-> data_response, requests |-> result.requests,
     outcome |-> result.outcome]

\* AemetClient(api_key).fetch_station_data(start_utc, end_utc, station_id)
FetchStationData(api_key, station, window, meta_response, data_response) ==
    /\ client.op = "none"
    /\ client' = ClientCall("fetch_station_data", api_key, meta_response,
                            data_response,
                            FetchStationDataResult(api_key,
                                AsTimezoneUTC(window[1]), AsTimezoneUTC(window[2]),
                                StationIdFor(station), meta_response,
                                data_response))
    /\ UNCHANGED <<station_catalog, now, measurements, fetch_windows, req, conn, nreq, call>>

\* AemetClient(api_key).fetch_station_inventory()
FetchStationInventory(api_key, meta_response, data_response) ==
    /\ client.op = "none"
    /\ client' = ClientCall("fetch_station_inventory", api_key, meta_response,
                            data_response,
                            FetchStationInventoryResult(api_key, meta_response,
                                                        data_response))
    /\ UNCHANGED <<station_catalog, now, measurements, fetch_windows, req, conn, nreq, call>>

AdapterNext ==
    \/ \E api_key \in ApiKeys, station \in StationEnum, window \in {Window0001},
          meta_response \in MetaResponses, data_response \in DataResponses :
           FetchStationData(api_key, station, window, meta_response, data_response)
    \/ \E api_key \in ApiKeys, meta_response \in MetaResponses,
          data_response \in InventoryResponses :
           FetchStationInventory(api_key, meta_response, data_response)

AdapterSpec == Init /\ [][AdapterNext]_vars

(***************************************************************************)
(* get_data as one call at a time, with the adapter behind it: the         *)
(* credential of the client, the provider's two responses and the store.   *)
(***************************************************************************)

\* the metadata responses of ServiceSpec: one that names the data, one that
\* fails
ServiceMetaResponses ==
    {Response(200, Body("dict", Some(JsonStr(<<"u", "r", "l">>)), None, None, <<>>)),
     Response(500, Body("invalid", None, None, None, <<>>))}

\* the data responses of ServiceSpec: the payloads of Spec
ServiceDataResponses ==
    {Response(200, Body("list", None, None, None, items)) : items \in RawPayloads}

\* an AemetClient(api_key) none of whose methods has been called
ClientOf(api_key) == [NoClient EXCEPT !.api_key = api_key]

\* AntartidaService.get_data(station, start_local, end_local, NONE, all
\* types) on a service whose client holds api_key.  returned is the list
\* get_data returns, or None when it raises.
GetData(api_key, station, window, meta_response, data_response) ==
    /\ call.n < MaxRequests
    /\ LET station_id == StationIdFor(station)
           start_utc == AsTimezoneUTC(window[1])
           end_utc == AsTimezoneUTC(window[2])
           has_fresh_cache ==
               HasFreshFetchWindow(fetch_windows, station_id, start_utc,
                                   end_utc, MinFetchedAt)
           fetched == FetchStationDataResult(api_key, start_utc, end_utc,
                                             station_id, meta_response,
                                             data_response)
           written == UpsertMeasurements(
                          [measurements |-> measurements, fetch_windows |-> fetch_windows],
                          station_id, fetched.outcome.items, start_utc, end_utc,
                          IsoFormat(UtcNow))
           started == [NoCall EXCEPT !.op = "get_data", !.n = call.n + 1,
                                     !.station_id = station_id,
                                     !.start_utc = start_utc, !.end_utc = end_utc,
                                     !.fresh = has_fresh_cache]
           output(table) ==
               Outputs(GetMeasurements(table, station_id, start_utc, end_utc),
                       "none", MeasurementType)
       IN  IF AfterCacheCheck(has_fresh_cache) = "read"
           THEN /\ client' = ClientOf(api_key)
                /\ call' = [started EXCEPT !.result = output(measurements),
                                           !.returned = Some(output(measurements))]
                /\ UNCHANGED <<measurements, fetch_windows>>
           ELSE IF fetched.outcome.kind = "raise"
           THEN /\ client' = ClientCall("fetch_station_data", api_key, meta_response,
                                        data_response, fetched)
                /\ call' = started
                /\ UNCHANGED <<measurements, fetch_windows>>
           ELSE /\ client' = ClientCall("fetch_station_data", api_key, meta_response,
                                        data_response, fetched)
                /\ measurements' = written.measurements
                /\ fetch_windows' = written.fetch_windows
                /\ call' = [started EXCEPT !.rows = fetched.outcome.items,
                                           !.now_utc = IsoFormat(UtcNow),
                                           !.result = output(written.measurements),
                                           !.returned = Some(output(written.measurements))]
    /\ UNCHANGED <<station_catalog, now, req, conn, nreq>>

ServiceNext ==
    \/ Tick
    \/ \E api_key \in ApiKeys, station \in RequestStations, window \in RequestWindows,
          meta_response \in ServiceMetaResponses,
          data_response \in ServiceDataResponses :
           GetData(api_key, station, window, meta_response, data_response)

ServiceSpec == Init /\ [][ServiceNext]_vars

(***************************************************************************)
(* Properties.                                                             *)
(***************************************************************************)
\* the step is one of thread p's own get_data steps
OwnStep(p) == req'[p].pc # req[p].pc

\* the committed tables are what they were
StoreUnchanged == measurements' = measurements /\ fetch_windows' = fetch_windows

\* the fetch_windows record keyed exactly by p's request
RequestKeyWindows(p) ==
    {w \in fetch_windows : /\ w.station_id = req[p].station_id
                           /\ w.start_utc = IsoFormat(req[p].start_utc)
                           /\ w.end_utc = IsoFormat(req[p].end_utc)}

\* the instant of an ISO string
InstantOf(s) == Instant(FromIsoFormat(s))

\* C1: when has_fresh_fetch_window answered true, every step of the call
\* leaves both tables as they were, and the call makes no remote fetch and
\* no upsert: it goes from the cache lookup to the read to its result.
C1_CacheHitIsPureRead ==
    [][\A p \in Procs :
          (OwnStep(p) /\ (req[p].has_fresh_cache \/ req'[p].has_fresh_cache)) =>
              /\ StoreUnchanged
              /\ req'[p].pc \in {"read", "done", "idle"}
              /\ req'[p].fetch_calls = 0
              /\ req'[p].upsert_calls = 0
              /\ req'[p].fetch_args = <<>>
              /\ ~conn'[p].open]_vars

\* a call answered from the cache has returned stored rows
C1_Witness ==
    \E p \in Procs : /\ req[p].pc = "done"
                     /\ req[p].has_fresh_cache
                     /\ req[p].rows # <<>>

\* C2: a call that missed the cache and got past the fetch and the upsert
\* made exactly one remote fetch, for the whole requested UTC range, and one
\* upsert, and fetch_windows holds the record keyed by exactly its station,
\* start and end; this also when the fetch returned no rows.
C2_MissFetchesOnceAndRecordsWindow ==
    \A p \in Procs :
        /\ (req[p].pc # "idle" /\ ~req[p].has_fresh_cache) =>
              /\ req[p].fetch_calls = 1
              /\ req[p].fetch_args =
                     <<req[p].start_utc, req[p].end_utc, req[p].station_id>>
              /\ req[p].upsert_calls \in {0, 1}
              /\ req[p].upsert_calls = 0 <=>
                     (req[p].pc = "fetch" \/ req[p].error = "remote")
        /\ (req[p].pc \in {"read", "done"} /\ ~req[p].has_fresh_cache) =>
              /\ req[p].upsert_calls = 1
              /\ Cardinality(RequestKeyWindows(p)) = 1

\* a miss whose fetch returned no rows is done and its window is recorded
C2_Witness ==
    \E p \in Procs : /\ req[p].pc = "done"
                     /\ ~req[p].has_fresh_cache
                     /\ req[p].remote_rows = <<>>
                     /\ measurements = {}
                     /\ RequestKeyWindows(p) # {}

\* C3: once a miss for a range has committed its upsert, and until
\* cache_freshness_seconds have passed since that upsert read the clock, a
\* request for the same range or one inside it is answered as fresh.
C3_RecordedWindowPreventsRepeatedMiss ==
    \A p \in Procs :
        (/\ req[p].pc \in {"read", "done"}
         /\ ~req[p].has_fresh_cache
         /\ now - FromIsoFormat(req[p].now_utc).wall < cache_freshness_seconds) =>
            \A window \in RequestWindows :
                LET start_utc == AsTimezoneUTC(window[1])
                    end_utc == AsTimezoneUTC(window[2])
                IN  (/\ Instant(req[p].start_utc) <= Instant(start_utc)
                     /\ Instant(end_utc) <= Instant(req[p].end_utc)) =>
                        HasFreshFetchWindow(fetch_windows, req[p].station_id,
                                            start_utc, end_utc, MinFetchedAt)

\* C4: a call whose remote fetch raised is over with that error: one fetch
\* attempt, no upsert, no rows read back and no transaction, the failing
\* step left both tables as they were, and, unless another call committed
\* meanwhile, the same request would again miss the cache.
C4_FailedFetchIsTerminal ==
    /\ [](\A p \in Procs :
            req[p].error = "remote" =>
                /\ req[p].pc = "error"
                /\ req[p].fetch_calls = 1
                /\ req[p].upsert_calls = 0
                /\ req[p].rows = <<>>
                /\ ~conn[p].open
                /\ ~req[p].dirty =>
                       ~HasFreshFetchWindow(fetch_windows, req[p].station_id,
                                            req[p].start_utc, req[p].end_utc,
                                            MinFetchedAt))
    /\ [][\A p \in Procs :
            (req[p].error = "remote" \/ req'[p].error = "remote") =>
                (OwnStep(p) =>
                    /\ StoreUnchanged
                    /\ req'[p].pc \in {"error", "idle"})]_vars

\* a fetch has failed while the store holds rows of the requested range
C4_Witness ==
    \E p \in Procs :
        /\ req[p].error = "remote"
        /\ SelectedMeasurements(measurements, req[p].station_id,
                                req[p].start_utc, req[p].end_utc) # {}

\* the tables as a write (or construction) left them; a read changes neither
\* table, so what holds of the tables here holds of them after any read
AfterWrite == call.op # "query"

\* C5: has_fresh_fetch_window is true exactly when some stored window of the
\* station covers the range (start at or before, end at or after) and was
\* fetched at or after min_fetched_at_utc; looking at the most recently
\* fetched covering window only gives the same answer.
C5_FreshIffSomeCoveringWindowIsFresh ==
    AfterWrite =>
    \A station \in StationEnum, window \in RequestWindows,
       min \in (0 - cache_freshness_seconds)..MaxNow :
        LET station_id == StationIdFor(station)
            start_utc == AsTimezoneUTC(window[1])
            end_utc == AsTimezoneUTC(window[2])
        IN  HasFreshFetchWindow(fetch_windows, station_id, start_utc, end_utc,
                                NaiveDateTime(min))
            <=> \E w \in fetch_windows :
                    /\ w.station_id = station_id
                    /\ InstantOf(w.start_utc) <= Instant(start_utc)
                    /\ InstantOf(w.end_utc) >= Instant(end_utc)
                    /\ FromIsoFormat(w.fetched_at_utc).wall >= min

\* has_fresh_fetch_window answered true with two covering windows stored, the older one
\* stale and the newer one fetched exactly at min_fetched_at_utc
C5_Witness ==
    /\ call.op = "query"
    /\ call.fresh
    /\ \E w, v \in CoveringWindows(fetch_windows, call.station_id,
                                   call.start_utc, call.end_utc) :
           /\ FromIsoFormat(w.fetched_at_utc).wall < MinFetchedAt.wall
           /\ FromIsoFormat(v.fetched_at_utc) = MinFetchedAt

\* a table with the fetch stamps blanked
WithoutStamps(table) ==
    {[r EXCEPT !.fetched_at_utc = IsoFormat(NaiveDateTime(0))] : r \in table}

\* the stored row with the primary key of r
SameKey(table, r) ==
    {q \in table : q.station_id = r.station_id
                   /\ q.measured_at_utc = r.measured_at_utc}

\* the stamps an upsert_measurements call may read from the clock, now or
\* a tick from now
Stamps == {IsoFormat(NaiveDateTime(t)) : t \in {now, now + 1}}

\* C6: from every reachable store, upserting a row and then the same row
\* again leaves what upserting it once leaves (fetch stamp aside), with
\* exactly one stored row under its key; and after upserting any row list,
\* every row stored before is still stored under its key, with each geo
\* field that was present still present.
C6_UpsertIdempotentGeoKept ==
    AfterWrite =>
    /\ \A station \in StationEnum, raw \in StoreRawRows, f2 \in Stamps :
           LET station_id == StationIdFor(station)
               row == MapRow(raw)
               f1 == IsoFormat(UtcNow)
               once == ExecuteMany(measurements, station_id, <<row>>, f1)
               twice == ExecuteMany(once, station_id, <<row>>, f2)
               both == ExecuteMany(measurements, station_id, <<row, row>>, f1)
           IN  /\ WithoutStamps(twice) = WithoutStamps(once)
               /\ both = once
               /\ Cardinality(twice) = Cardinality(once)
               /\ Cardinality(SameKey(twice, InsertParams(station_id, row, f2))) = 1
    /\ \A station \in StationEnum, raw_items \in StorePayloads :
           LET after == ExecuteMany(measurements, StationIdFor(station),
                                    MapRows(raw_items), IsoFormat(UtcNow))
           IN  \A r \in measurements :
                   /\ Cardinality(SameKey(after, r)) = 1
                   /\ \A q \in SameKey(after, r) :
                          /\ r.latitude # None => q.latitude # None
                          /\ r.longitude # None => q.longitude # None
                          /\ r.altitude_m # None => q.altitude_m # None

\* the second upsert applied one row twice, a row without geo fields, and
\* the store holds one row, which carries that row's name and the
\* coordinates stored before
C6_Witness ==
    /\ call.op = "upsert_measurements"
    /\ call.n = 2
    /\ Len(call.rows) = 2
    /\ call.rows[1] = call.rows[2]
    /\ call.rows[1].latitude = None
    /\ Cardinality(measurements) = 1
    /\ \A r \in measurements : /\ r.station_name = call.rows[1].station_name
                               /\ r.latitude # None
                               /\ r.longitude # None
                               /\ r.altitude_m # None

\* C7: when an upserted row meets a stored row of its key, the stored row
\* takes the incoming station_name, temperature, pressure, speed, direction
\* and fetch stamp as they are, absent values included; latitude, longitude
\* and altitude take the incoming value when it is present and keep the
\* stored one when it is absent; every other row is left alone.
C7_ConflictOverwritesValuesCoalescesGeo ==
    AfterWrite =>
    \A station \in StationEnum, raw \in StoreRawRows, f \in Stamps :
        LET new == InsertParams(StationIdFor(station), MapRow(raw), f)
            after == InsertMeasurement(measurements, new)
        IN  \A old \in SameKey(measurements, new) :
                after = (measurements \ {old}) \cup
                    {[station_id |-> old.station_id,
                      measured_at_utc |-> old.measured_at_utc,
                      station_name |-> new.station_name,
                      temperature_c |-> new.temperature_c,
                      pressure_hpa |-> new.pressure_hpa,
                      speed_mps |-> new.speed_mps,
                      direction_deg |-> new.direction_deg,
                      latitude |-> IF new.latitude = None THEN old.latitude
                                   ELSE new.latitude,
                      longitude |-> IF new.longitude = None THEN old.longitude
                                    ELSE new.longitude,
                      altitude_m |-> IF new.altitude_m = None THEN old.altitude_m
                                     ELSE new.altitude_m,
                      fetched_at_utc |-> new.fetched_at_utc]}

\* an upsert of two different rows of one instant has left one row: the
\* values of the second, absent, and the coordinates of the first
C7_Witness ==
    /\ call.op = "upsert_measurements"
    /\ Len(call.rows) = 2
    /\ call.rows[1] # call.rows[2]
    /\ call.rows[1].temperature_c # None
    /\ \E r \in measurements :
           /\ r.station_id = call.station_id
           /\ r.measured_at_utc = IsoFormat(call.rows[2].measured_at_utc)
           /\ r.station_name = call.rows[2].station_name
           /\ r.temperature_c = None
           /\ r.latitude = call.rows[1].latitude
           /\ r.latitude # None

\* C8: the committed tables change only in the commit of one upsert, which
\* brings them to what its row statements and its window statement made of
\* the tables it started from, rows and window together; a call whose
\* upsert fails ends with the error, its connection closed, and the failing
\* step leaves the committed tables as they were.
C8_UpsertIsAtomic ==
    [][/\ ~StoreUnchanged =>
              \E p \in Procs :
                  /\ req[p].pc = "commit"
                  /\ req'[p].pc = "read"
                  /\ measurements' =
                         ExecuteMany(measurements, req[p].station_id,
                                     req[p].remote_rows, req[p].now_utc)
                  /\ fetch_windows' =
                         InsertWindow(fetch_windows,
                                      WindowParams(req[p].station_id, req[p].start_utc,
                                                   req[p].end_utc, req[p].now_utc))
                  /\ RequestKeyWindows(p)' # {}
       /\ \A p \in Procs :
              (req'[p].error = "store" /\ req[p].error # "store") =>
                  /\ StoreUnchanged
                  /\ req'[p].pc = "error"
                  /\ req'[p].rows = <<>>
                  /\ ~conn'[p].open]_vars

\* the only call made so far fetched rows and its upsert failed after the
\* row statements ran: the store holds neither rows nor window
C8_Witness ==
    \E p \in Procs :
        /\ nreq = 1
        /\ req[p].error = "store"
        /\ req[p].remote_rows # <<>>
        /\ measurements = {}
        /\ fetch_windows = {}

\* the committed rows of a station whose observation instant lies in
\* [start_utc, end_utc]
RowsInRange(table, station_id, start_utc, end_utc) ==
    {r \in table : /\ r.station_id = station_id
                   /\ Instant(start_utc) <= InstantOf(r.measured_at_utc)
                   /\ InstantOf(r.measured_at_utc) <= Instant(end_utc)}

\* the elements of a sequence
Range(seq) == {seq[i] : i \in 1..Len(seq)}

\* C9: the rows a call reads back for its output are exactly the committed
\* rows of the station whose observation instant lies in the requested
\* range, those of earlier fetches included, each once; the output is their
\* projection.
C9_OutputIsCommittedRowsInRange ==
    [][\A p \in Procs :
          (req[p].pc = "read" /\ req'[p].pc = "done") =>
              LET in_range == RowsInRange(measurements, req[p].station_id,
                                          req[p].start_utc, req[p].end_utc)
              IN  /\ Range(req'[p].rows) = {RowToMeasurement(r) : r \in in_range}
                  /\ Len(req'[p].rows) = Cardinality(in_range)
                  /\ \A aggregation \in Aggregations, selected_types \in TypeSelections :
                         GetDataResult(p, aggregation, selected_types)' =
                             [i \in 1..Len(req'[p].rows) |->
                                 ToOutput(req'[p].rows[i], selected_types)]]_vars

\* C10: get_measurements returns exactly the stored rows of the station
\* whose observation instant t has start_utc <= t <= end_utc, each once, in
\* ascending order of observation instant.
C10_RangeInclusiveAscending ==
    call.op = "query" =>
        LET in_range == RowsInRange(measurements, call.station_id,
                                    call.start_utc, call.end_utc)
        IN  /\ Range(call.result) = {RowToMeasurement(r) : r \in in_range}
            /\ Len(call.result) = Cardinality(in_range)
            /\ \A i, j \in 1..Len(call.result) :
                   i < j => Instant(call.result[i].measured_at_utc)
                                <= Instant(call.result[j].measured_at_utc)

\* the stored windows with the key of w
SameWindowKey(windows, w) ==
    {v \in windows : /\ v.station_id = w.station_id
                     /\ v.start_utc = w.start_utc
                     /\ v.end_utc = w.end_utc}

\* C11: fetch_windows never holds two records of one (station_id, start,
\* end) key; recording a window whose key is stored changes only that
\* record's fetched_at_utc, recording one whose key is new adds it, and
\* either way every other record stays as it was; and a range that no single
\* stored window of the station covers is never answered as fresh, whatever
\* the stored windows cover together.
C11_WindowsNeverMerge ==
    AfterWrite =>
    /\ \A w \in fetch_windows : SameWindowKey(fetch_windows, w) = {w}
    /\ \A station \in StationEnum, window \in RequestWindows :
           LET station_id == StationIdFor(station)
               start_utc == AsTimezoneUTC(window[1])
               end_utc == AsTimezoneUTC(window[2])
               new == WindowParams(station_id, start_utc, end_utc,
                                   IsoFormat(NaiveDateTime(now + 1)))
               old == SameWindowKey(fetch_windows, new)
               after == InsertWindow(fetch_windows, new)
           IN  /\ after \ SameWindowKey(after, new) = fetch_windows \ old
               /\ SameWindowKey(after, new) = {new}
               /\ Cardinality(after) =
                      Cardinality(fetch_windows) + (IF old = {} THEN 1 ELSE 0)
               /\ (~\E w \in fetch_windows :
                        /\ w.station_id = station_id
                        /\ InstantOf(w.start_utc) <= Instant(start_utc)
                        /\ Instant(end_utc) <= InstantOf(w.end_utc)) =>
                      \A min \in (0 - cache_freshness_seconds)..MaxNow :
                          ~HasFreshFetchWindow(fetch_windows, station_id, start_utc,
                                               end_utc, NaiveDateTime(min))

\* two adjacent windows of one station are stored, both fresh, and the
\* lookup of the range they cover together answered false
C11_Witness ==
    /\ call.op = "query"
    /\ ~call.fresh
    /\ \E w, v \in fetch_windows :
           /\ w.station_id = call.station_id
           /\ v.station_id = call.station_id
           /\ w.start_utc = IsoFormat(call.start_utc)
           /\ w.end_utc = v.start_utc
           /\ v.end_utc = IsoFormat(call.end_utc)
           /\ InstantOf(w.start_utc) < InstantOf(w.end_utc)
           /\ InstantOf(v.start_utc) < InstantOf(v.end_utc)
           /\ IsFresh(FromIsoFormat(w.fetched_at_utc), MinFetchedAt)
           /\ IsFresh(FromIsoFormat(v.fetched_at_utc), MinFetchedAt)

\* C12: the store holds at most one measurement row per station and
\* observation instant.
C12_OneRowPerInstant ==
    \A r, q \in measurements :
        (r.station_id = q.station_id
         /\ InstantOf(r.measured_at_utc) = InstantOf(q.measured_at_utc)) => r = q

\* the local calendar instant of a datetime in Madrid, and what it is
\* truncated to under a granularity
LocalWall(dt) == Instant(dt) + MadridUtcOffset(Instant(dt))

\* the rows of call.rows that belong to the bucket emitted at `bucket`
BucketMembers(bucket) ==
    SelectSeq(call.rows,
              LAMBDA row : RowKey(row, call.aggregation).wall
                               = LocalWall(bucket.measured_at_utc))

\* v is the mean of the present values of a field, to the nearest
\* thousandth, or absent when none is present
IsMeanOf(v, items, field) ==
    LET present == {i \in 1..Len(items) : items[i][field] # None}
        total == SumOf([i \in 1..Len(items) |->
                           IF i \in present THEN items[i][field] ELSE Some(0)])
        n == Cardinality(present)
    IN  IF n = 0 THEN v = None
        ELSE /\ v # None
             /\ 2 * ((n * v[1]) - total) <= n
             /\ 2 * (total - (n * v[1])) <= n

\* C13: in every bucket of an hourly, daily or monthly aggregation,
\* temperature, pressure and speed are the mean of the bucket's present
\* values to the nearest thousandth, and absent when the bucket has no
\* present value; rows at 00:05 and 00:15 with temperatures 10.0 and 14.0
\* give, hourly, exactly one output row, with temperature 12.0.
C13_ScalarMeanOverPresentValues ==
    (call.op = "aggregate" /\ call.aggregation # "none") =>
        /\ \A n \in 1..Len(call.transformed) :
               LET bucket == call.transformed[n]
                   items == BucketMembers(bucket)
               IN  /\ items # <<>>
                   /\ IsMeanOf(bucket.temperature_c, items, "temperature_c")
                   /\ IsMeanOf(bucket.pressure_hpa, items, "pressure_hpa")
                   /\ IsMeanOf(bucket.speed_mps, items, "speed_mps")
        /\ (call.rows = RowsTwoTemperatures /\ call.aggregation = "hourly") =>
               /\ Len(call.result) = 1
               /\ "temperature" \in call.selected_types \/ call.selected_types = {} =>
                      call.result[1].temperature = Some(12000)

\* the two temperatures 10.0 and 14.0 were aggregated hourly with no type
\* selected: one output row, temperature 12.0, pressure absent
C13_Witness ==
    /\ call.op = "aggregate"
    /\ call.aggregation = "hourly"
    /\ call.selected_types = {}
    /\ call.rows = RowsTwoTemperatures
    /\ Len(call.result) = 1
    /\ call.result[1].temperature = Some(12000)
    /\ call.result[1].pressure = None

\* the present directions of a row list, as a bag of thousandths of a degree
DirectionsOf(items) ==
    LET present == {i \in 1..Len(items) : items[i].direction_deg # None}
    IN  [d \in {items[i].direction_deg[1] : i \in present} |->
            Cardinality({i \in present : items[i].direction_deg[1] = d})]

\* the directions cancel: they come in opposite pairs of equal weight
Cancelling(directions) ==
    /\ DOMAIN directions # {}
    /\ \A d \in DOMAIN directions :
           /\ ((d + 180000) % 360000) \in DOMAIN directions
           /\ directions[(d + 180000) % 360000] = directions[d]

\* C14: in every bucket the direction is absent when no direction is
\* present and when the present directions cancel (0 and 180 with equal
\* weight), and otherwise an angle from 0 to 360; directions 350 and 10
\* average to 0 or 360.
C14_CircularMeanOfDirections ==
    (call.op = "aggregate" /\ call.aggregation # "none") =>
        \A n \in 1..Len(call.transformed) :
            LET bucket == call.transformed[n]
                directions == DirectionsOf(BucketMembers(bucket))
            IN  /\ DOMAIN directions = {} => bucket.direction_deg = None
                /\ Cancelling(directions) => bucket.direction_deg = None
                /\ (DOMAIN directions # {} /\ ~Cancelling(directions)) =>
                       /\ bucket.direction_deg # None
                       /\ bucket.direction_deg[1] \in 0..360000
                /\ (DOMAIN directions = {350000, 10000}
                    /\ directions[350000] = directions[10000]) =>
                       bucket.direction_deg \in {Some(0), Some(360000)}

\* the calendar day in Madrid (counted from 2024-03-30) of a datetime
LocalDay(dt) == LocalWall(dt) \div 1440

\* C15: a daily aggregation has one bucket per Madrid calendar day of its
\* rows, in ascending order; each bucket averages exactly the rows of its
\* day, also on the day the offset changes (2024-03-30T23:30Z and
\* 2024-03-31T21:30Z form one bucket); the emitted timestamp is midnight of
\* that day in Madrid with the offset in force at that midnight (+01:00 on
\* 2024-03-31).
C15_DailyBucketsFollowMadridCalendar ==
    (call.op = "aggregate" /\ call.aggregation = "daily") =>
        LET days == {LocalDay(call.rows[i].measured_at_utc) : i \in 1..Len(call.rows)}
        IN  /\ Len(call.result) = Cardinality(days)
            /\ Len(call.transformed) = Cardinality(days)
            /\ \A n \in 1..Len(call.result) :
                   LET out == call.result[n]
                       bucket == call.transformed[n]
                       items == SelectSeq(call.rows,
                                    LAMBDA row : LocalDay(row.measured_at_utc) * 1440
                                                     = out.datetime.wall)
                   IN  /\ out.datetime.wall \in {d * 1440 : d \in days}
                       /\ out.datetime.off # None
                       /\ out.datetime.off =
                              Some(MadridUtcOffset(Instant(out.datetime)))
                       /\ Instant(out.datetime) = Instant(bucket.measured_at_utc)
                       /\ IsMeanOf(bucket.temperature_c, items, "temperature_c")
                       /\ bucket.station_name = items[1].station_name
                       /\ \A k \in 1..Len(call.result) :
                              k < n => call.result[k].datetime.wall < out.datetime.wall
            /\ call.rows = RowsSpringForwardDay =>
                   /\ Len(call.result) = 1
                   /\ call.result[1].datetime = DateTime(1440, 60)

\* the rows of 2024-03-30T23:30Z and 2024-03-31T21:30Z were aggregated
\* daily: one output row, stamped 2024-03-31T00:00+01:00, mean of both
C15_Witness ==
    /\ call.op = "aggregate"
    /\ call.aggregation = "daily"
    /\ call.rows = RowsSpringForwardDay
    /\ call.selected_types = {}
    /\ Len(call.result) = 1
    /\ call.result[1].datetime = DateTime(1440, 60)
    /\ call.result[1].temperature = Some(2000)

\* the value of a quantity in a row and in an output row
QuantityOf(row, type) ==
    CASE type = "temperature" -> row.temperature_c
      [] type = "pressure" -> row.pressure_hpa
      [] type = "speed" -> row.speed_mps
      [] type = "direction" -> row.direction_deg

\* C16: with no type selected every quantity of an output row is the value
\* of the row it projects; with a selection a selected quantity is that
\* value (present only if available) and every other quantity is absent,
\* whatever the row holds.
C16_ProjectionKeepsSelectedQuantities ==
    call.op = "aggregate" =>
        /\ Len(call.result) = Len(call.transformed)
        /\ \A n \in 1..Len(call.result), type \in MeasurementType :
               call.result[n][type] =
                   IF call.selected_types = {} \/ type \in call.selected_types
                   THEN QuantityOf(call.transformed[n], type)
                   ELSE None

\* temperature and direction were selected on a row that holds all four
\* quantities: the output has those two and neither pressure nor speed
C16_Witness ==
    /\ call.op = "aggregate"
    /\ call.selected_types = {"temperature", "direction"}
    /\ Len(call.result) = 1
    /\ call.transformed[1].pressure_hpa # None
    /\ call.transformed[1].speed_mps # None
    /\ call.result[1].temperature # None
    /\ call.result[1].direction # None
    /\ call.result[1].pressure = None
    /\ call.result[1].speed = None

\* C17: latitude, longitude and altitude of an output row are those of the
\* row it projects, for every selection of types.
C17_ProjectionKeepsCoordinates ==
    call.op = "aggregate" =>
        \A n \in 1..Len(call.result) :
            /\ call.result[n].latitude = call.transformed[n].latitude
            /\ call.result[n].longitude = call.transformed[n].longitude
            /\ call.result[n].altitude = call.transformed[n].altitude_m

\* one type was selected and the output row carries the coordinates of the
\* row, all three present
C17_Witness ==
    /\ call.op = "aggregate"
    /\ call.selected_types = {"pressure"}
    /\ Len(call.result) >= 1
    /\ call.result[1].latitude # None
    /\ call.result[1].latitude = call.transformed[1].latitude
    /\ call.result[1].longitude # None
    /\ call.result[1].altitude # None

\* the metadata request was answered with a JSON object that has no data URL
MetadataWithoutDataUrl ==
    /\ client.op # "none"
    /\ client.api_key # ""
    /\ client.meta_response.status_code = 200
    /\ client.meta_response.body.kind = "dict"
    /\ client.meta_response.body.datos \in {None, Some(JsonStr(<<>>))}

\* that object has status 404 and a description that contains "no hay
\* datos" in some letter case
NoDataSentinel ==
    /\ client.meta_response.body.estado
           \in {Some(JsonInt(404)), Some(JsonStr(Text404))}
    /\ client.meta_response.body.descripcion
           \in {Some(JsonStr(DescNoData)), Some(JsonStr(DescNoDataUpper))}

\* the error message has a part made of the literal and the text
Carries(literal, text) ==
    \E i \in 1..Len(client.outcome.message) :
        client.outcome.message[i] = Part(literal, text)

\* only the metadata request was issued
OnlyMetadataRequested ==
    /\ Len(client.requests) = 1
    /\ client.requests[1].api_key = Some(client.api_key)

\* C18: fetch_station_data answered with a metadata object without a data
\* URL returns the empty list, without error, when the object has status
\* 404 and a description containing "no hay datos" in any letter case; on
\* every other such object it raises an error that carries the status and
\* the description the provider gave, and returns nothing.
C18_NoDataSentinelIsEmptyElseError ==
    (client.op = "fetch_station_data" /\ MetadataWithoutDataUrl) =>
        LET estado == client.meta_response.body.estado
            descripcion == client.meta_response.body.descripcion
        IN  /\ OnlyMetadataRequested
            /\ NoDataSentinel => client.outcome = Returned(<<>>)
            /\ ~NoDataSentinel =>
                   /\ client.outcome.kind = "raise"
                   /\ client.outcome.items = <<>>
                   /\ estado # None => Carries("estado=", Str(estado))
                   /\ (descripcion # None /\ Str(descripcion) # <<>>) =>
                          Carries("descripcion=", Str(descripcion))

\* a measurement fetch was answered with status 404 (as text) and the
\* description in capitals, and returned the empty list
C18_Witness ==
    /\ client.op = "fetch_station_data"
    /\ MetadataWithoutDataUrl
    /\ client.meta_response.body.estado = Some(JsonStr(Text404))
    /\ client.meta_response.body.descripcion = Some(JsonStr(DescNoDataUpper))
    /\ client.outcome = Returned(<<>>)
    /\ Len(client.requests) = 1

\* C19: fetch_station_inventory answered with a metadata object without a
\* data URL raises an error, also when the object has status 404 and the
\* "no hay datos" description; it never returns an empty catalog for it.
C19_CatalogFetchRejectsNoData ==
    (client.op = "fetch_station_inventory" /\ MetadataWithoutDataUrl) =>
        /\ client.outcome.kind = "raise"
        /\ client.outcome.items = <<>>
        /\ Carries("AEMET response missing 'datos' URL", <<>>)
        /\ OnlyMetadataRequested

\* a catalog fetch was answered with the no-data sentinel and raised
C19_Witness ==
    /\ client.op = "fetch_station_inventory"
    /\ MetadataWithoutDataUrl
    /\ NoDataSentinel
    /\ client.outcome.kind = "raise"
    /\ Carries("estado=", Text404)

\* C20: with an empty credential fetch_station_data and
\* fetch_station_inventory raise the missing-credential error and issue no
\* request at all, neither the metadata request nor the download.
C20_EmptyCredentialFailsBeforeNetwork ==
    (client.op # "none" /\ client.api_key = "") =>
        /\ client.outcome.kind = "raise"
        /\ client.outcome.message =
               <<Part("AEMET_API_KEY environment variable is required", <<>>)>>
        /\ client.requests = <<>>

\* a catalog fetch without credential failed with no request issued, though
\* the provider would have answered with a data URL and a list
C20_Witness ==
    /\ client.op = "fetch_station_inventory"
    /\ client.api_key = ""
    /\ client.meta_response.status_code = 200
    /\ client.meta_response.body.datos = Some(JsonStr(<<"u", "r", "l">>))
    /\ client.data_response.body.kind = "list"
    /\ client.outcome.kind = "raise"
    /\ client.requests = <<>>

\* the fetch instants of the catalog rows
CatalogInstants == {Instant(FromIsoFormat(r.fetched_at_utc)) : r \in station_catalog}

\* C21: has_fresh_station_catalog(m) is true exactly when the catalog has a
\* row and the latest fetch instant over all its rows is at or after m;
\* get_station_catalog_last_fetched_at returns that latest instant, and
\* nothing for an empty catalog.  Rows stamped by an older write do not
\* count against freshness.
C21_CatalogFreshnessIsGlobalMaximum ==
    call.op = "catalog_query" =>
        /\ call.fresh <=>
               \E t \in CatalogInstants : t >= Instant(call.min_fetched_at_utc)
        /\ station_catalog = {} <=> call.last_fetched_at = None
        /\ station_catalog # {} =>
               /\ Instant(call.last_fetched_at[1]) \in CatalogInstants
               /\ \A t \in CatalogInstants : t <= Instant(call.last_fetched_at[1])

\* the catalog holds a row of an older write and a row of a newer one, and
\* is fresh for a threshold between the two
C21_Witness ==
    /\ call.op = "catalog_query"
    /\ Cardinality(CatalogInstants) = 2
    /\ \E t \in CatalogInstants : t < Instant(call.min_fetched_at_utc)
    /\ call.fresh
    /\ call.last_fetched_at = Some(DateTime(Instant(call.min_fetched_at_utc), 0))

\* the last item of a list with a station id
LastItemFor(rows, station_id) ==
    rows[CHOOSE i \in 1..Len(rows) :
            /\ rows[i].station_id = station_id
            /\ \A j \in (i + 1)..Len(rows) : rows[j].station_id # station_id]

\* C28: the catalog never holds two rows of one station id; after
\* upsert_station_catalog(rows) every station of the list has the row of its
\* item, all columns overwritten, stamped with the one instant the call
\* returns; get_station_catalog returns every catalog row once, in ascending
\* order of station name.
C28_CatalogUpsertOverwritesPerStation ==
    /\ \A r, q \in station_catalog : r.station_id = q.station_id => r = q
    /\ call.op = "upsert_station_catalog" =>
           /\ call.returned # None
           /\ call.returned[1].off = Some(0)
           /\ \A i \in 1..Len(call.rows) :
                  \E r \in station_catalog :
                      /\ r.station_id = call.rows[i].station_id
                      /\ RowToCatalogItem(r) = LastItemFor(call.rows, r.station_id)
                      /\ FromIsoFormat(r.fetched_at_utc) = call.returned[1]
    /\ call.op = "catalog_query" =>
           /\ Len(call.result) = Cardinality(station_catalog)
           /\ {call.result[i] : i \in 1..Len(call.result)}
                  = {RowToCatalogItem(r) : r \in station_catalog}
           /\ \A i, j \in 1..Len(call.result) :
                  i < j => NameRank(call.result[i].station_name)
                               <= NameRank(call.result[j].station_name)

\* two stations were written by one call after the clock had advanced: the
\* catalog has two rows and that of 89064 carries the values of its item
\* and the stamp of the call
C28_Witness ==
    /\ call.op = "upsert_station_catalog"
    /\ call.rows = <<Juan2, Gabriel2>>
    /\ now > 0
    /\ Cardinality(station_catalog) = 2
    /\ \E r \in station_catalog :
           /\ r.station_id = "89064"
           /\ r.station_name = "GABRIEL"
           /\ r.province = None
           /\ r.fetched_at_utc = IsoFormat(DateTime(now, 0))

\* the threads whose connection has a write transaction open
Writers == {p \in Procs : conn[p].open}

\* C22: at most one write transaction is open at any time; a writer that
\* finds the lock held fails only after the busy handler has waited, never
\* at once; a request that reads is never held up by a writer, never ends in
\* an error, and reads the committed tables, which no statement of an open
\* transaction has touched.
C22_WritersSerializedReadersIsolated ==
    /\ [](/\ Cardinality(Writers) <= 1
          /\ \A p \in Procs :
                 (req[p].pc = "read" /\ Writers # {}) => ENABLED Read(p))
    /\ [][\A p \in Procs :
              /\ (Contending(p) /\ req'[p].pc = "error") => req[p].waited
              /\ (Contending(p) /\ req'[p].pc # "error") =>
                     \/ req'[p] = [req[p] EXCEPT !.waited = TRUE]
                     \/ req'[p] = [req[p] EXCEPT !.dirty = TRUE]
                     \/ req'[p] = req[p]
              /\ (req[p].pc = "read" /\ req'[p].pc # "read") =>
                     /\ req'[p].pc = "done"
                     /\ req'[p].error = ""
                     /\ req'[p].rows =
                            GetMeasurements(measurements, req[p].station_id,
                                            req[p].start_utc, req[p].end_utc)
                     /\ StoreUnchanged
                     /\ \A q \in Writers : conn'[q] = conn[q]]_vars

\* one thread holds the write lock with its rows written and not committed
\* while the other, at its first statement, has waited for the lock
C22_Witness ==
    \E p, q \in Procs :
        /\ p # q
        /\ conn[q].open
        /\ conn[q].measurements # measurements
        /\ Contending(p)
        /\ req[p].waited

\* the local wall clock of a row truncated to the hour, the day or the month
TruncatedLocal(row, aggregation) ==
    LET wall == LocalWall(row.measured_at_utc)
    IN  CASE aggregation = "hourly" -> wall - (wall % 60)
          [] aggregation = "daily" -> wall - (wall % 1440)
          [] aggregation = "monthly" ->
                 1440 * (CHOOSE d \in MonthFirstDays :
                            /\ d * 1440 <= wall
                            /\ \A e \in MonthFirstDays : e * 1440 <= wall => e <= d)

\* the first row of call.rows, in input order, with a truncated local time
FirstRowAt(wall) ==
    call.rows[CHOOSE i \in 1..Len(call.rows) :
                 /\ TruncatedLocal(call.rows[i], call.aggregation) = wall
                 /\ \A j \in 1..(i - 1) :
                        TruncatedLocal(call.rows[j], call.aggregation) # wall]

\* C23: an hourly, daily or monthly aggregation emits one bucket per
\* truncated local time of its rows; the instant of a bucket reads, in
\* Madrid, as that truncated local time; the buckets come in strictly
\* ascending order of instant, so no two share one; name, latitude,
\* longitude and altitude of a bucket are those of the first row, in input
\* order, that falls into it.
C23_BucketsKeyedByLocalStartAscending ==
    (call.op = "aggregate" /\ call.aggregation # "none") =>
        LET keys == {TruncatedLocal(call.rows[i], call.aggregation) :
                        i \in 1..Len(call.rows)}
        IN  /\ Len(call.transformed) = Cardinality(keys)
            /\ {LocalWall(call.transformed[n].measured_at_utc) :
                    n \in 1..Len(call.transformed)} = keys
            /\ \A n \in 1..Len(call.transformed) :
                   LET bucket == call.transformed[n]
                       first == FirstRowAt(LocalWall(bucket.measured_at_utc))
                   IN  /\ bucket.station_name = first.station_name
                       /\ bucket.latitude = first.latitude
                       /\ bucket.longitude = first.longitude
                       /\ bucket.altitude_m = first.altitude_m
                       /\ \A k \in 1..(n - 1) :
                              Instant(call.transformed[k].measured_at_utc)
                                  < Instant(bucket.measured_at_utc)

\* the rows around the end of summer time were aggregated hourly: two
\* buckets, 02:00 (00:00Z) before 03:00 (02:00Z), the first named after its
\* first row and with that row's coordinates
C23_Witness ==
    /\ call.op = "aggregate"
    /\ call.aggregation = "hourly"
    /\ call.rows = RowsFallBack
    /\ Len(call.transformed) = 2
    /\ call.transformed[1].measured_at_utc = DateTime(211 * 1440, 0)
    /\ call.transformed[2].measured_at_utc = DateTime((211 * 1440) + 120, 0)
    /\ call.transformed[1].station_name = "A"
    /\ call.transformed[1].latitude # None

\* an output row shows a stored row: its instant, its name and every value
Shows(out, r) ==
    /\ Instant(out.datetime) = InstantOf(r.measured_at_utc)
    /\ out.stationName = r.station_name
    /\ out.temperature = r.temperature_c
    /\ out.pressure = r.pressure_hpa
    /\ out.speed = r.speed_mps
    /\ out.direction = r.direction_deg
    /\ out.latitude = r.latitude
    /\ out.longitude = r.longitude
    /\ out.altitude = r.altitude_m

\* C24: with no aggregation (and no type selection) the output of get_data
\* has exactly one row per stored row of the station whose instant lies in
\* the requested range, in ascending order of instant, each with the name,
\* the values and the coordinates of its stored row.
C24_RawOutputIsStoredRowsInRange ==
    [][\A p \in Procs :
          (req[p].pc = "read" /\ req'[p].pc = "done") =>
              LET in_range == RowsInRange(measurements, req[p].station_id,
                                          req[p].start_utc, req[p].end_utc)
                  out == GetDataResult(p, "none", {})'
              IN  /\ Len(out) = Cardinality(in_range)
                  /\ \A r \in in_range : \E i \in 1..Len(out) : Shows(out[i], r)
                  /\ \A i \in 1..Len(out) : \E r \in in_range : Shows(out[i], r)
                  /\ \A i, j \in 1..Len(out) :
                         i < j => Instant(out[i].datetime) <= Instant(out[j].datetime)]_vars

\* C25: a request whose remote fetch is in progress has no connection open,
\* so the write lock is never held by a fetching request and a request that
\* reads can always read; and every request that has started ends with a
\* result or with an error.
C25_NoTransactionAcrossFetchAndTermination ==
    /\ [](\A p \in Procs :
              /\ req[p].pc = "fetch" => ~conn[p].open
              /\ \A q \in Writers : req[q].pc \in {"tx_window", "commit"}
              /\ (req[p].pc = "read" /\ \E q \in Procs : req[q].pc = "fetch") =>
                     ENABLED Read(p)
              /\ (req[p].pc = "tx_rows" /\ \A q \in Procs \ {p} : req[q].pc = "fetch") =>
                     ENABLED TxRows(p))
    /\ \A p \in Procs : (req[p].pc # "idle") ~> (req[p].pc \in {"done", "error"})

\* one request is waiting for the provider while the other has its write
\* transaction open
C25_Witness ==
    \E p, q \in Procs :
        /\ req[p].pc = "fetch"
        /\ req[q].pc = "commit"
        /\ conn[q].open
        /\ ~conn[p].open


\* the call requested the metadata and the data behind it, and returned
Downloaded == Len(client.requests) = 2 /\ client.outcome.kind = "return"

\* the first of two values that is neither null nor the empty string
FirstPresent(a, b) == IF a = None \/ a = Some(JsonStr(<<>>)) THEN b ELSE a

\* the real number a field takes from the value its keys carry
MappedNumber(value) == SanitizeNan(ToFloat(value))

\* C26: the mapping of a raw row takes each field from the first of its keys,
\* in priority order, that carries a value, where only null and the empty
\* string count as absent: a number under the first key, the number 0
\* included, is mapped to that number and neither replaced by the value of a
\* later key nor dropped, both in the rows of measurements and in the rows
\* of the station inventory.
C26_FirstKeyWithValueIsMapped ==
    /\ (client.op = "fetch_station_data" /\ Downloaded) =>
           LET raw == client.data_response.body.items
               out == client.outcome.items
           IN  /\ Len(out) = Len(raw)
               /\ \A i \in 1..Len(raw) :
                      /\ out[i].temperature_c = MappedNumber(raw[i].temp)
                      /\ out[i].pressure_hpa = MappedNumber(raw[i].pres)
                      /\ out[i].speed_mps = MappedNumber(raw[i].vel)
                      /\ out[i].direction_deg = MappedNumber(raw[i].dir)
                      /\ out[i].latitude =
                             MappedNumber(FirstPresent(raw[i].lat, raw[i].latitud))
                      /\ out[i].longitude =
                             MappedNumber(FirstPresent(FirstPresent(raw[i].lon, raw[i].long),
                                                       raw[i].longitud))
                      /\ out[i].altitude_m =
                             MappedNumber(FirstPresent(raw[i].alt, raw[i].altitud))
    /\ (client.op = "fetch_station_inventory" /\ Downloaded) =>
           LET raw == client.data_response.body.items
               out == client.outcome.items
           IN  \A i \in 1..Len(raw) :
                   InventoryStationId(raw[i]) # "" =>
                       \E j \in 1..Len(out) :
                           /\ out[j].stationId = InventoryStationId(raw[i])
                           /\ out[j].latitude = ToFloat(raw[i].latitud)
                           /\ out[j].altitude = ToFloat(raw[i].altitud)

\* the seven optional reals of a measurement
NumericFields ==
    {"temperature_c", "pressure_hpa", "speed_mps", "direction_deg", "latitude",
     "longitude", "altitude_m"}

\* a value that is absent or a finite number
FiniteOrAbsent(v) == v = None \/ (Len(v) = 1 /\ v[1] \in Int)

\* every optional real of the measurement is absent or finite
AllFinite(m) == \A f \in NumericFields : FiniteOrAbsent(m[f])

\* the value a field takes from what float() read: absent unless finite
Normalized(v) == IF FiniteOrAbsent(v) THEN v ELSE None

\* C27: no measurement that is constructed from a provider row, written to
\* the store, read back or returned carries NaN or an infinity in any of its
\* seven optional reals: such a value is absent from construction on, and
\* the finite values of the row are kept.
C27_NoNanOrInfiniteValue ==
    /\ \A r \in measurements : AllFinite(r)
    /\ \A p \in Procs :
           /\ \A i \in 1..Len(req[p].remote_rows) : AllFinite(req[p].remote_rows[i])
           /\ \A i \in 1..Len(req[p].rows) : AllFinite(req[p].rows[i])
           /\ req[p].remote_rows # <<>> =>
                  \E raw_items \in RawPayloads :
                      /\ Len(raw_items) = Len(req[p].remote_rows)
                      /\ \A i \in 1..Len(raw_items) :
                             LET raw == raw_items[i]
                                 m == req[p].remote_rows[i]
                             IN  /\ m.station_name = raw.nombre
                                 /\ m.temperature_c = Normalized(ToFloat(raw.temp))
                                 /\ m.pressure_hpa = Normalized(ToFloat(raw.pres))
                                 /\ m.speed_mps = Normalized(ToFloat(raw.vel))
                                 /\ m.direction_deg = Normalized(ToFloat(raw.dir))
                                 /\ m.latitude = Normalized(ToFloat(Or(raw.lat, raw.latitud)))
                                 /\ m.longitude =
                                        Normalized(ToFloat(Or(Or(raw.lon, raw.long), raw.longitud)))
                                 /\ m.altitude_m = Normalized(ToFloat(Or(raw.alt, raw.altitud)))

\* a request has returned the stored rows of a payload in which one row has
\* nan under pres and another a finite temperature: the first is stored and
\* returned without a pressure, the second with its temperature
C27_Witness ==
    \E p \in Procs, raw_items \in RawPayloads :
        \E i, j \in 1..Len(raw_items) :
            /\ ToFloat(raw_items[i].pres) = NaN
            /\ ToFloat(raw_items[j].temp) = Some(11)
            /\ req[p].pc = "done"
            /\ \E k, l \in 1..Len(req[p].rows) :
                   /\ req[p].rows[k].station_name = raw_items[i].nombre
                   /\ req[p].rows[k].pressure_hpa = None
                   /\ req[p].rows[l].station_name = raw_items[j].nombre
                   /\ req[p].rows[l].temperature_c = Some(11)
            /\ \E r \in measurements :
                   /\ r.station_name = raw_items[i].nombre
                   /\ r.pressure_hpa = None

\* the instant of a stamp, which is a naive datetime in UTC
StampInstant(text) == FromIsoFormat(text).wall

\* the window w covers [start_utc, end_utc], by the instants
CoversRange(w, start_utc, end_utc) ==
    /\ DateTimeGE(start_utc, FromIsoFormat(w.start_utc))
    /\ DateTimeGE(FromIsoFormat(w.end_utc), end_utc)

\* C29: a request that is answered from the cache at time t finds in the
\* store a window of its station that covers the requested range and whose
\* stamp is not earlier than t - cache_freshness_seconds; and a window enters
\* the store, or changes, only in the commit of a call that fetched exactly
\* the range of the window from the provider, once and with success, with
\* the stamp that call read, and never before the instant of the stamp.  So
\* the window behind a cache hit is that of an earlier successful fetch of a
\* covering range, committed not earlier than t - cache_freshness_seconds.
C29_CacheHitBackedByFreshFetch ==
    /\ [][\A p \in Procs :
              (req[p].pc = "idle" /\ req'[p].pc # "idle" /\ req'[p].has_fresh_cache) =>
                  \E w \in fetch_windows :
                      /\ w.station_id = req'[p].station_id
                      /\ CoversRange(w, req'[p].start_utc, req'[p].end_utc)
                      /\ StampInstant(w.fetched_at_utc) >=
                             now - cache_freshness_seconds]_vars
    /\ [][fetch_windows' # fetch_windows =>
              \E p \in Procs :
                  /\ req[p].pc = "commit"
                  /\ req[p].error = ""
                  /\ req[p].fetch_calls = 1
                  /\ req[p].upsert_calls = 1
                  /\ req[p].fetch_args =
                         FetchArgs(req[p].station_id, req[p].start_utc, req[p].end_utc)
                  /\ StampInstant(req[p].now_utc) <= now
                  /\ \A w \in fetch_windows' \ fetch_windows :
                         /\ w.station_id = req[p].station_id
                         /\ w.start_utc = IsoFormat(req[p].start_utc)
                         /\ w.end_utc = IsoFormat(req[p].end_utc)
                         /\ w.fetched_at_utc = req[p].now_utc]_vars

\* a request for a range inside the one an earlier request fetched has been
\* answered from the cache, one tick after the stamp of the window
C29_Witness ==
    \E p \in Procs, w \in fetch_windows :
        /\ req[p].has_fresh_cache
        /\ req[p].pc = "done"
        /\ req[p].fetch_calls = 0
        /\ w.station_id = req[p].station_id
        /\ w.start_utc # IsoFormat(req[p].start_utc)
        /\ CoversRange(w, req[p].start_utc, req[p].end_utc)
        /\ StampInstant(w.fetched_at_utc) = now - 1

\* the rows of the table that belong to the station
OfStation(table, station_id) == {r \in table : r.station_id = station_id}

\* the ids of the two stations
StationIds == {StationIdFor(station) : station \in StationEnum}

\* C30: the stations are isolated.  has_fresh_fetch_window is true for a
\* station only by a covering window of that station, get_measurements
\* returns rows of the station asked for only, and a write for one station
\* leaves the measurement rows and the fetch windows of the other station
\* as they were.
C30_StationsIsolated ==
    /\ [](/\ Cardinality(StationIds) = Cardinality(StationEnum)
          /\ call.op = "query" =>
                 /\ call.fresh =>
                        CoveringWindows(OfStation(fetch_windows, call.station_id),
                                        call.station_id, call.start_utc,
                                        call.end_utc) # {}
                 /\ Len(call.result) <= Cardinality(OfStation(measurements, call.station_id))
                 /\ \A i \in 1..Len(call.result) :
                        \E r \in OfStation(measurements, call.station_id) :
                            call.result[i] = RowToMeasurement(r))
    /\ [][call'.op = "upsert_measurements" /\ call' # call =>
              \A other \in StationIds \ {call'.station_id} :
                  /\ OfStation(measurements', other) = OfStation(measurements, other)
                  /\ OfStation(fetch_windows', other) = OfStation(fetch_windows, other)]_vars

\* after writes for both stations, with rows at the same observation
\* instant, one station is asked for a range for which only the other has a
\* fresh covering window: no fresh window, and its own row alone
C30_Witness ==
    /\ call.op = "query"
    /\ ~call.fresh
    /\ Len(call.result) = 1
    /\ \E other \in StationIds \ {call.station_id} :
           /\ HasFreshFetchWindow(OfStation(fetch_windows, other), other,
                                  call.start_utc, call.end_utc, MinFetchedAt)
           /\ GetMeasurements(measurements, other, call.start_utc, call.end_utc) # <<>>
           /\ \E r \in OfStation(measurements, other),
                 m \in OfStation(measurements, call.station_id) :
                  r.measured_at_utc = m.measured_at_utc

\* the (station_id, instant) keys of the measurement rows of a table
MeasurementKeys(table) == {<<r.station_id, InstantOf(r.measured_at_utc)>> : r \in table}

\* the (station_id, start, end) keys of the windows of a table
WindowKeys(windows) == {<<w.station_id, w.start_utc, w.end_utc>> : w \in windows}

\* no key of either table is lost in the step
KeysKept ==
    /\ MeasurementKeys(measurements) \subseteq MeasurementKeys(measurements')
    /\ WindowKeys(fetch_windows) \subseteq WindowKeys(fetch_windows')
    /\ Cardinality(measurements) <= Cardinality(measurements')
    /\ Cardinality(fetch_windows) <= Cardinality(fetch_windows')

\* no window has an earlier fetch instant after the step than before it
FetchInstantsKept ==
    \A w \in fetch_windows, v \in fetch_windows' :
        <<v.station_id, v.start_utc, v.end_utc>> = <<w.station_id, w.start_utc, w.end_utc>> =>
            StampInstant(v.fetched_at_utc) >= StampInstant(w.fetched_at_utc)

\* C31: the store only grows.  No step of any get_data request, successful
\* or failed, removes a measurement row or a fetch window, the sets of
\* (station_id, instant) keys and of (station_id, start, end) window keys
\* never lose a member, and the fetch instant of a window never decreases.
C31_StoreOnlyGrows == [][KeysKept /\ FetchInstantsKept]_vars

\* both threads are at the end of a call for the same station and range in
\* which no fresh window was found and the fetch returned, and the store
\* raised no failure and no lock timeout to either of them
BothMissedSameRange ==
    /\ \A p \in Procs :
           /\ req[p].pc \in {"done", "error"}
           /\ ~req[p].has_fresh_cache
           /\ req[p].upsert_calls = 1
           /\ req[p].error # "store"
    /\ \A p, q \in Procs :
           /\ req[p].station_id = req[q].station_id
           /\ req[p].start_utc = req[q].start_utc
           /\ req[p].end_utc = req[q].end_utc

\* the stored row under the key of the fetched row m carries the values of m
\* outside the geospatial fields
StoredWithValuesOf(table, station_id, m) ==
    \E r \in table :
        /\ r.station_id = station_id
        /\ r.measured_at_utc = IsoFormat(m.measured_at_utc)
        /\ r.station_name = m.station_name
        /\ r.temperature_c = m.temperature_c
        /\ r.pressure_hpa = m.pressure_hpa
        /\ r.speed_mps = m.speed_mps
        /\ r.direction_deg = m.direction_deg

\* C32: two concurrent get_data requests for the same station and range
\* that both find no fresh window each make their own fetch and their own
\* upsert, both end without error, and the store then holds exactly one
\* fetch window for the key and exactly one row per (station_id, instant);
\* the rows carry, outside the geospatial fields, the values of the upsert
\* that committed last.
C32_ConcurrentMissesBothWriteLastWins ==
    /\ [](BothMissedSameRange =>
              /\ \A p \in Procs :
                     /\ req[p].fetch_calls = 1
                     /\ req[p].pc = "done"
                     /\ req[p].error = ""
              /\ \A p \in Procs :
                     Cardinality({w \in fetch_windows :
                                      /\ w.station_id = req[p].station_id
                                      /\ w.start_utc = IsoFormat(req[p].start_utc)
                                      /\ w.end_utc = IsoFormat(req[p].end_utc)}) = 1
              /\ \A r, q \in measurements :
                     (r.station_id = q.station_id
                      /\ InstantOf(r.measured_at_utc) = InstantOf(q.measured_at_utc)) => r = q)
    /\ [][\A p \in Procs :
              (req[p].pc = "commit" /\ req'[p].pc = "read") =>
                  \A i \in 1..Len(req[p].remote_rows) :
                      StoredWithValuesOf(measurements', req[p].station_id,
                                         req[p].remote_rows[i])]_vars

\* the start of the UTC hour of the row's instant
UtcHour(row) == HourStart(Instant(row.measured_at_utc))

\* C33: in HOURLY aggregation every bucket covers at most one hour of
\* absolute time.  Two rows that are placed in the same bucket have their
\* instants in the same UTC hour, so there are as many buckets as UTC hours
\* among the rows, also in the repeated local hour of the fall-back: rows at
\* 00:30Z and 01:30Z of that day, both 02:30 local, are in two buckets.
C33_HourlyBucketIsOneAbsoluteHour ==
    (call.op = "aggregate" /\ call.aggregation = "hourly") =>
        /\ \A i, j \in 1..Len(call.rows) :
               RowKey(call.rows[i], "hourly").wall = RowKey(call.rows[j], "hourly").wall =>
                   UtcHour(call.rows[i]) = UtcHour(call.rows[j])
        /\ Len(call.transformed) =
               Cardinality({UtcHour(call.rows[i]) : i \in 1..Len(call.rows)})

\* the bucket keys of the rows
KeysOf(rows, aggregation) == {RowKey(rows[i], aggregation).wall : i \in 1..Len(rows)}

RECURSIVE ItemsInBuckets(_, _, _)
\* the number of rows in the buckets of the keys, taken together
ItemsInBuckets(rows, aggregation, keys) ==
    IF keys = {} THEN 0
    ELSE LET key == CHOOSE k \in keys : TRUE
         IN  Len(BucketItems(rows, aggregation, key))
             + ItemsInBuckets(rows, aggregation, keys \ {key})

\* C34: HOURLY, DAILY and MONTHLY aggregation partition the input.  Every
\* input row is in exactly one bucket, so the buckets hold as many rows as
\* the input has; there are at most as many buckets as rows, none for the
\* empty input, and the output has exactly one row per bucket.
C34_AggregationPartitionsInput ==
    (call.op = "aggregate" /\ call.aggregation # "none") =>
        LET keys == KeysOf(call.rows, call.aggregation)
        IN  /\ \A i \in 1..Len(call.rows) :
                   Cardinality({k \in keys :
                       \E n \in 1..Len(BucketItems(call.rows, call.aggregation, k)) :
                           BucketItems(call.rows, call.aggregation, k)[n] = call.rows[i]}) = 1
            /\ ItemsInBuckets(call.rows, call.aggregation, keys) = Len(call.rows)
            /\ Len(call.transformed) = Cardinality(keys)
            /\ Len(call.transformed) <= Len(call.rows)
            /\ call.rows = <<>> => call.transformed = <<>> /\ call.result = <<>>
            /\ Len(call.result) = Len(call.transformed)

\* three rows in two hours have been aggregated by the hour into two buckets
\* and two output rows
C34_Witness ==
    /\ call.op = "aggregate"
    /\ call.aggregation = "hourly"
    /\ Len(call.rows) = 3
    /\ Cardinality(KeysOf(call.rows, "hourly")) = 2
    /\ Len(call.transformed) = 2
    /\ Len(call.result) = 2

\* C35: after upsert_station_catalog(rows) has returned the instant t, for
\* any list of rows, the empty list included,
\* get_station_catalog_last_fetched_at() is t and
\* has_fresh_station_catalog(m) is true for every m not later than t.
C35_CatalogWriteRefreshesFreshness ==
    call.op = "upsert_station_catalog" =>
        LET t == call.returned[1]
            last == GetStationCatalogLastFetchedAt(station_catalog)
        IN  /\ last # None
            /\ Instant(last[1]) = Instant(t)
            /\ \A m \in MinFetchedAtInputs :
                   Instant(m) <= Instant(t) => HasFreshStationCatalog(station_catalog, m)

\* the last get_data was made with the empty credential
EmptyCredential == call.op = "get_data" /\ client.api_key = ""

\* the last get_data raised the error of the missing credential
FailedForCredential ==
    /\ call.op = "get_data"
    /\ call.returned = None
    /\ client.outcome = KeyRequired

\* C36: the credential is checked only when a remote fetch is needed.  A
\* get_data made with the empty credential returns the stored rows of the
\* range, without a call to the adapter, when a fresh covering window
\* exists; without one it fails with the error of the missing credential,
\* before any request to the provider and with the store unchanged.  No
\* other call fails for the credential.
C36_CredentialCheckedOnlyOnCacheMiss ==
    /\ [](/\ (EmptyCredential /\ call.fresh) =>
                 /\ call.returned =
                        Some(Outputs(GetMeasurements(measurements, call.station_id,
                                                     call.start_utc, call.end_utc),
                                     "none", MeasurementType))
                 /\ client.op = "none"
                 /\ client.requests = <<>>
          /\ (EmptyCredential /\ ~call.fresh) =>
                 /\ FailedForCredential
                 /\ client.op = "fetch_station_data"
                 /\ client.requests = <<>>
          /\ FailedForCredential => (EmptyCredential /\ ~call.fresh))
    /\ [][(call' # call /\ call'.op = "get_data" /\ client'.api_key = "") =>
              StoreUnchanged]_vars

\* a get_data with the empty credential has returned the stored rows of a
\* range for which an earlier get_data, made with a credential, had fetched
\* rows and recorded the window
C36_Witness ==
    /\ EmptyCredential
    /\ call.fresh
    /\ call.n = 2
    /\ call.returned # None
    /\ call.returned[1] # <<>>
    /\ client.op = "none"
    /\ fetch_windows # {}
=============================================================================
